---- MODULE Spec2Model ----
(***************************************************************************)
(* State-machine model of the SRM customer-service assistant:              *)
(* services/ai_service.py (language inference, service detection,          *)
(* reactivation note, deterministic diagnosis, run_agent routing),         *)
(* data/sql_db.py (account / zone lookups), data/conversations.py          *)
(* (conversation store) and backend/routes (chat endpoints).               *)
(*                                                                         *)
(* Text is modelled as a sequence of tokens.  Every token stands for one   *)
(* concrete word of the source's keyword lists or one contract number;     *)
(* the regular expressions and substring tests of the source are computed  *)
(* from the lexical features of the tokens.  Non-ASCII words are written   *)
(* with an ASCII name:                                                     *)
(*   "AR_alma"      the Arabic word for "the water"      (U+0600 block)    *)
(*   "AR_alkahraba" the Arabic word for "the electricity"                  *)
(*   "AR_mochkil"   an Arabic-script word that is no keyword               *)
(***************************************************************************)
EXTENDS Integers, Sequences, FiniteSets, TLC

VARIABLES
    water_invoices,       \* dbo.water_invoices JOIN dbo.users: contract -> row
    electricity_invoices, \* dbo.electricity_invoices JOIN dbo.users
    zones,                \* dbo.zones: zone_id -> row
    now,                  \* the database clock (SYSUTCDATETIME), in seconds
    unreachable,          \* the tables whose query raises (connection, SQL error)
    conversations_store,  \* conversation id -> sequence of messages
    agent,                \* routes.chat.agent: TRUE once initialize_agent succeeded
    requests,             \* number of requests the endpoints have handled
    turn,                 \* trace of the last handled request
    pf,                   \* argument / result of the last pure-function call
    inflight              \* position of each /chat request that is being handled

vars == <<water_invoices, electricity_invoices, zones, now, unreachable,
          conversations_store, agent, requests, turn, pf, inflight>>

\* Python None; an optional value v that is present is <<v>>
None == <<>>
Some(v) == <<v>>

\* the worker threads that handle requests at the same time
Threads == {1, 2}

\* a thread that handles no request
Idle == [pc |-> "idle", cid |-> "", text |-> <<>>, response |-> <<>>]

NoThreads == [t \in Threads |-> Idle]

\* ------------------------------------------------------------------ bounds
MaxTokens == 2      \* longest text drawn for the language inferencer
MaxHist == 2        \* longest history drawn for the language inferencer
MaxElapsed == 125   \* largest seconds_since_payment drawn
MaxSkew == 5        \* most negative seconds_since_payment drawn is -MaxSkew
MaxExchanges == 1   \* exchanges in a history drawn for one run_agent call
MaxTurns == 2       \* requests the endpoints handle in one behaviour
MaxConvTurns == 3   \* turns of the conversation drawn for the sequencing

\* ------------------------------------------------------------ vocabulary
W1 == "3701455886 / 1014871"   \* water contract stored in the database
W2 == "3701000000 / 1000"      \* well-formed water contract, not stored
E1 == "4801566997 / 2025982"   \* electricity contract stored in the database
E0 == "4801000000 / 1000"      \* well-formed electricity contract, not stored
W3 == "3701455887 / 1014872"   \* a second water contract of the seed data
E3 == "4801566998 / 2025983"   \* a second electricity contract of the seed data
EW == "48013701455886 / 1014871"  \* electricity contract whose digits hold W1
X1 == "93701455886 / 1014871"     \* no contract: W1 after a leading 9

Vocab ==
    {"hello", "water", "electricity", "eau", "electricite", "bonjour",
     "salam", "lma", "AR_alma", "AR_alkahraba", "AR_mochkil", W1, W2, E1, E0}

\* lexical features of the tokens
ArabicScript == {"AR_alma", "AR_alkahraba", "AR_mochkil"}
\* the decimal digits that occur in a token
Digits(tok) ==
    CASE tok = W1 -> {0, 1, 3, 4, 5, 6, 7, 8}
      [] tok = EW -> {0, 1, 3, 4, 5, 6, 7, 8}
      [] tok = X1 -> {0, 1, 3, 4, 5, 6, 7, 8, 9}
      [] tok = W2 -> {0, 1, 3, 7}
      [] tok = E1 -> {0, 1, 2, 4, 5, 6, 7, 8, 9}
      [] tok = E0 -> {0, 1, 4, 8}
      [] OTHER -> {}
\* shape of a number token: prefix, digits after the prefix, separator, tail
Shape(tok) ==
    CASE tok = W1 -> [prefix |-> "3701", lead |-> 6, sep |-> TRUE, tail |-> 7]
      [] tok = W2 -> [prefix |-> "3701", lead |-> 6, sep |-> TRUE, tail |-> 4]
      [] tok = E1 -> [prefix |-> "4801", lead |-> 6, sep |-> TRUE, tail |-> 7]
      [] tok = E0 -> [prefix |-> "4801", lead |-> 6, sep |-> TRUE, tail |-> 4]
      [] tok = EW -> [prefix |-> "4801", lead |-> 10, sep |-> TRUE, tail |-> 7]
      [] tok = X1 -> [prefix |-> "9370", lead |-> 7, sep |-> TRUE, tail |-> 7]
      [] OTHER -> [prefix |-> "", lead |-> 0, sep |-> FALSE, tail |-> 0]

\* the contract-shaped strings that begin inside a token, after its first
\* character, from left to right
Inner(tok) ==
    CASE tok = EW -> <<W1>>
      [] tok = X1 -> <<W1>>
      [] OTHER -> <<>>

Max(a, b) == IF a >= b THEN a ELSE b

\* ------------------------------------------------------ regular expressions
\* AR_CHARS = [U+0600-U+06FF] on one token
AR_CHARS_tok(tok) == tok \in ArabicScript
\* ARABIZI_DIGITS = [23579]
ARABIZI_DIGITS == {2, 3, 5, 7, 9}
\* DARIJA_TOKENS, the words of the alternation that are in the vocabulary
DARIJA_TOKENS == {"salam", "lma"}
\* fr_markers: " bonjour", " electricite", " eau" (leading space: word start)
fr_markers == {"bonjour", "electricite", "eau"}
\* detect_service keyword lists (substring tests on the lower-cased text)
water_kw == {"water", "eau", "AR_alma", "lma"}
elec_kw == {"electricity", "electricite", "AR_alkahraba"}

AnyTok(text, S) == \E i \in 1..Len(text) : text[i] \in S

\* AR_CHARS.search on a user text
AR_CHARS_text(text) == \E i \in 1..Len(text) : AR_CHARS_tok(text[i])

\* AR_CHARS.search on an assistant reply (a sequence of rendered pieces)
AR_CHARS_reply(reply) == \E i \in 1..Len(reply) : reply[i].script = "ar"

\* ------------------------------------------------------ language inference
\* the scan `for m in reversed(chat_history)`: content of the most recent
\* assistant message, "" (the empty reply) when there is none
RECURSIVE last_assistant(_, _)
last_assistant(chat_history, i) ==
    IF i = 0 THEN <<>>
    ELSE IF chat_history[i].role = "assistant" THEN chat_history[i].content
    ELSE last_assistant(chat_history, i - 1)

\* mutant: the scan runs from the oldest message
RECURSIVE first_assistant(_, _)
first_assistant(chat_history, i) ==
    IF i > Len(chat_history) THEN <<>>
    ELSE IF chat_history[i].role = "assistant" THEN chat_history[i].content
    ELSE first_assistant(chat_history, i + 1)

infer_language_from_thread_oldest(user_input, chat_history) ==
    IF AR_CHARS_reply(first_assistant(chat_history, 1)) THEN "ar"
    ELSE IF AR_CHARS_text(user_input) THEN "ar"
    ELSE IF (\E i \in 1..Len(user_input) :
                Digits(user_input[i]) \cap ARABIZI_DIGITS # {})
            \/ AnyTok(user_input, DARIJA_TOKENS) THEN "ar"
    ELSE IF AnyTok(user_input, fr_markers) THEN "fr"
    ELSE "en"

infer_language_from_thread(user_input, chat_history) ==
    IF AR_CHARS_reply(last_assistant(chat_history, Len(chat_history))) THEN "ar"
    ELSE IF AR_CHARS_text(user_input) THEN "ar"
    ELSE IF (\E i \in 1..Len(user_input) :
                Digits(user_input[i]) \cap ARABIZI_DIGITS # {})
            \/ AnyTok(user_input, DARIJA_TOKENS) THEN "ar"
    ELSE IF AnyTok(user_input, fr_markers) THEN "fr"
    ELSE "en"

\* --------------------------------------------------------- service detection
detect_service(text) ==
    LET has_w == AnyTok(text, water_kw)
        has_e == AnyTok(text, elec_kw)
    IN  IF has_w /\ has_e THEN "both"
        ELSE IF has_w THEN "water"
        ELSE IF has_e THEN "electricity"
        ELSE "unknown"

\* ------------------------------------------------------------ rendered text
\* A rendered text is a sequence of pieces.  A piece is one template sentence
\* with its interpolated data: seg names the template, lang the language the
\* template is written in, script is "ar" when the rendered piece contains a
\* character of the Arabic block, arg is the interpolated value.  A piece with
\* seg = "ws" is a line break or a run of several blanks.
Piece(seg, service, lang, script, arg) ==
    [seg |-> seg, service |-> service, lang |-> lang, script |-> script,
     arg |-> arg]

Script(lang) == IF lang = "ar" THEN "ar" ELSE "latin"

NotWs(p) == p.seg # "ws"

\* mutant: the text is returned as it is
_one_line_raw(text) == text

\* " ".join(text.split())
_one_line(text) == SelectSeq(text, NotWs)

\* dict.get(key): None when the key is absent
Get(d, key) == IF key \in DOMAIN d THEN d[key] ELSE None

\* the branch `if lang == "fr" ... if lang == "en" ... else Arabic`
TemplateLang(lang) == IF lang \in {"fr", "en"} THEN lang ELSE "ar"

\* ---------------------------------------------------------- reactivation note
WINDOW_SECONDS == 120

\* the `Normalize service` block
NoteServiceKey(service) ==
    IF service \in {"water", "eau", "AR_alma", "AR_ma", "lma"} THEN "water"
    ELSE IF service \in {"electricity", "electricite", "AR_alkahraba",
                         "AR_kahraba", "daw"} THEN "electricity"
    ELSE "service"

\* the note: the label of the service, the language of the sentence, the
\* minutes still to wait and whether the payment time is shown
NotePiece(service, lang, remaining_minutes, payment_timestamp) ==
    LET l == IF lang \in {"ar", "fr", "en"} THEN lang ELSE "ar"
    IN  <<Piece("note", NoteServiceKey(service), l, Script(l),
                [minutes |-> remaining_minutes,
                 paid_at |-> payment_timestamp # None])>>

\* mutant: the remaining minutes are rounded down
_build_reactivation_note_floor(payment_timestamp, service, seconds_since_payment, lang, window_seconds) ==
    IF seconds_since_payment = None THEN <<>>
    ELSE LET elapsed == IF seconds_since_payment[1] < 0 THEN 0
                        ELSE seconds_since_payment[1]
         IN  IF elapsed >= window_seconds THEN <<>>
             ELSE LET remaining_seconds == Max(0, window_seconds - elapsed)
                      remaining_minutes == Max(1, remaining_seconds \div 60)
                  IN  NotePiece(service, lang, remaining_minutes,
                                payment_timestamp)

_build_reactivation_note(payment_timestamp, service, seconds_since_payment, lang, window_seconds) ==
    IF seconds_since_payment = None THEN <<>>
    ELSE LET elapsed == IF seconds_since_payment[1] < 0 THEN 0
                        ELSE seconds_since_payment[1]
         IN  IF elapsed >= window_seconds THEN <<>>
             ELSE LET remaining_seconds == Max(0, window_seconds - elapsed)
                      remaining_minutes == Max(1, (remaining_seconds + 59) \div 60)
                  IN  NotePiece(service, lang, remaining_minutes,
                                payment_timestamp)

\* ------------------------------------------------------------------ the store
\* A row of an invoice table joined with its user:
\*   [zone_id, is_paid, outstanding_balance, cut_status, last_payment_datetime]
\* last_payment_datetime is None or Some(time of the payment on the clock now).
\* A row of dbo.zones:
\*   [zone_name, maintenance_status, affected_services, outage_reason,
\*    estimated_restoration]
\* maintenance_status is "IN_PROGRESS" (the Arabic status text the source
\* compares with) or "NONE"; affected_services is the set of the service words
\* "AR_ma" (water), "AR_kahraba" (electricity) the column's text contains.

\* the leading parts of a stored contract a LIKE ? + '%' argument can equal
LeadingParts(stored) ==
    CASE stored = W1 -> {"3701455886 /", "3701455886", "3701"}
      [] stored = W3 -> {"3701455887 /", "3701455887", "3701"}
      [] stored = E1 -> {"4801566997 /", "4801566997", "4801"}
      [] stored = E3 -> {"4801566998 /", "4801566998", "4801"}
      [] OTHER -> {}

\* stored LIKE arg + '%'
StartsWith(stored, arg) == arg = stored \/ arg \in LeadingParts(stored)

\* The possible results of the query of get_user_by_water_contract: fetchone
\* returns one of the matching rows, None when there is none; the except
\* branch returns None when the connection or the query fails.  The SELECT list
\* has no last_payment_datetime and no seconds_since_payment column.
get_user_by_water_contract(water_contract) ==
    LET rows == {c \in DOMAIN water_invoices :
                    c = water_contract \/ StartsWith(c, water_contract)}
    IN  IF "water_invoices" \in unreachable THEN {None}
        ELSE IF rows = {} THEN {None}
        ELSE {Some([zone_id |-> water_invoices[c].zone_id,
                    water_contract_number |-> c,
                    is_paid |-> water_invoices[c].is_paid,
                    outstanding_balance |-> water_invoices[c].outstanding_balance,
                    cut_status |-> water_invoices[c].cut_status,
                    service_type |-> "AR_ma"]) : c \in rows}

get_user_by_electricity_contract(electricity_contract) ==
    LET rows == {c \in DOMAIN electricity_invoices :
                    c = electricity_contract \/ StartsWith(c, electricity_contract)}
    IN  IF "electricity_invoices" \in unreachable THEN {None}
        ELSE IF rows = {} THEN {None}
        ELSE {Some([zone_id |-> electricity_invoices[c].zone_id,
                    electricity_contract_number |-> c,
                    is_paid |-> electricity_invoices[c].is_paid,
                    outstanding_balance |->
                        electricity_invoices[c].outstanding_balance,
                    cut_status |-> electricity_invoices[c].cut_status,
                    service_type |-> "AR_kahraba"]) : c \in rows}

get_zone_by_id(zone_id) ==
    IF "zones" \in unreachable THEN None
    ELSE IF zone_id \in DOMAIN zones THEN Some(zones[zone_id]) ELSE None

\* the zone _answer_water / _answer_elec look up for a user that was found
ZoneOf(user) == IF user = None THEN None ELSE get_zone_by_id(user[1].zone_id)

\* the lookups one deterministic answer performs, in order
AnswerLookups(first, user) ==
    IF user = None THEN <<first>> ELSE <<first, "get_zone_by_id">>

\* ------------------------------------------------------- deterministic answers
\* zone_name when the zone row is missing
DefaultZoneName(lang) ==
    IF lang = "fr" THEN "votre zone"
    ELSE IF lang = "en" THEN "your area" ELSE "AR_mintaqatuk"

\* script of a template of language l that interpolates zone_name
MixScript(l, zone_name) ==
    IF l = "ar" \/ zone_name \in {"AR_zone", "AR_mintaqatuk"} THEN "ar"
    ELSE "latin"

\* mutant: the unpaid test comes before the maintenance test
_answer_water_unpaid_first(user, zone, contract, lang) ==
    LET tl == TemplateLang(lang)
    IN  IF user = None
        THEN _one_line(<<Piece("not_found", "water", tl, Script(tl), contract)>>)
        ELSE
        LET u == user[1]
            note == _build_reactivation_note(Get(u, "last_payment_datetime"),
                        "AR_alma", Get(u, "seconds_since_payment"), "ar",
                        WINDOW_SECONDS)
            is_paid == u.is_paid
            outstanding == u.outstanding_balance
            cut_status == u.cut_status
            zone_name == IF zone # None THEN zone[1].zone_name
                         ELSE DefaultZoneName(lang)
            maint_status == IF zone # None THEN zone[1].maintenance_status ELSE ""
            affected == IF zone # None THEN zone[1].affected_services ELSE {}
            outage_reason == IF zone # None THEN zone[1].outage_reason ELSE None
            estimated == IF zone # None THEN zone[1].estimated_restoration
                         ELSE None
            \* base = {"fr": ..., "en": ..., "ar": ...}.get(lang, Arabic)
            bl == IF lang \in {"fr", "en", "ar"} THEN lang ELSE "ar"
            MaintText ==
                <<Piece("maintenance", "water", bl, MixScript(bl, zone_name),
                        contract)>>
                \o (IF outage_reason # None
                    THEN <<Piece("outage_reason", "water", "ar", "ar",
                                 outage_reason[1])>>
                    ELSE <<>>)
                \o (IF estimated # None
                    THEN <<Piece("estimated_restoration", "water", "ar", "ar",
                                 estimated[1])>>
                    ELSE <<>>)
        IN  IF (~is_paid) \/ (outstanding > 0)
            THEN _one_line(<<Piece("unpaid", "water", tl, Script(tl), outstanding)>>)
            ELSE IF maint_status = "IN_PROGRESS" /\ "AR_ma" \in affected
            THEN _one_line(note \o MaintText)
            ELSE IF note # <<>>
            THEN _one_line(note \o <<Piece("paid_wait", "water", tl,
                                          MixScript(tl, zone_name), contract)>>)
            ELSE _one_line(<<Piece("technical", "water", tl,
                                   MixScript(tl, zone_name), contract)>>)

\* run_agent._answer_water, on the records its lookups returned
_answer_water(user, zone, contract, lang) ==
    LET tl == TemplateLang(lang)
    IN  IF user = None
        THEN _one_line(<<Piece("not_found", "water", tl, Script(tl), contract)>>)
        ELSE
        LET u == user[1]
            note == _build_reactivation_note(Get(u, "last_payment_datetime"),
                        "AR_alma", Get(u, "seconds_since_payment"), "ar",
                        WINDOW_SECONDS)
            is_paid == u.is_paid
            outstanding == u.outstanding_balance
            cut_status == u.cut_status
            zone_name == IF zone # None THEN zone[1].zone_name
                         ELSE DefaultZoneName(lang)
            maint_status == IF zone # None THEN zone[1].maintenance_status ELSE ""
            affected == IF zone # None THEN zone[1].affected_services ELSE {}
            outage_reason == IF zone # None THEN zone[1].outage_reason ELSE None
            estimated == IF zone # None THEN zone[1].estimated_restoration
                         ELSE None
            \* base = {"fr": ..., "en": ..., "ar": ...}.get(lang, Arabic)
            bl == IF lang \in {"fr", "en", "ar"} THEN lang ELSE "ar"
            MaintText ==
                <<Piece("maintenance", "water", bl, MixScript(bl, zone_name),
                        contract)>>
                \o (IF outage_reason # None
                    THEN <<Piece("outage_reason", "water", "ar", "ar",
                                 outage_reason[1])>>
                    ELSE <<>>)
                \o (IF estimated # None
                    THEN <<Piece("estimated_restoration", "water", "ar", "ar",
                                 estimated[1])>>
                    ELSE <<>>)
        IN  IF maint_status = "IN_PROGRESS" /\ "AR_ma" \in affected
            THEN _one_line(note \o MaintText)
            ELSE IF (~is_paid) \/ (outstanding > 0)
            THEN _one_line(<<Piece("unpaid", "water", tl, Script(tl), outstanding)>>)
            ELSE IF note # <<>>
            THEN _one_line(note \o <<Piece("paid_wait", "water", tl,
                                          MixScript(tl, zone_name), contract)>>)
            ELSE _one_line(<<Piece("technical", "water", tl,
                                   MixScript(tl, zone_name), contract)>>)

\* _answer_elec deciding UNPAID from the is_paid flag alone
_answer_elec_flag_only(user, zone, contract, lang) ==
    LET tl == TemplateLang(lang)
    IN  IF user = None
        THEN _one_line(<<Piece("not_found", "electricity", tl, Script(tl), contract)>>)
        ELSE
        LET u == user[1]
            note == _build_reactivation_note(Get(u, "last_payment_datetime"),
                        "AR_alkahraba", Get(u, "seconds_since_payment"), "ar",
                        WINDOW_SECONDS)
            is_paid == u.is_paid
            outstanding == u.outstanding_balance
            cut_status == u.cut_status
            zone_name == IF zone # None THEN zone[1].zone_name
                         ELSE DefaultZoneName(lang)
            maint_status == IF zone # None THEN zone[1].maintenance_status ELSE ""
            affected == IF zone # None THEN zone[1].affected_services ELSE {}
            outage_reason == IF zone # None THEN zone[1].outage_reason ELSE None
            estimated == IF zone # None THEN zone[1].estimated_restoration
                         ELSE None
            \* base = {"fr": ..., "en": ..., "ar": ...}.get(lang, Arabic)
            bl == IF lang \in {"fr", "en", "ar"} THEN lang ELSE "ar"
            MaintText ==
                <<Piece("maintenance", "electricity", bl, MixScript(bl, zone_name),
                        contract)>>
                \o (IF outage_reason # None
                    THEN <<Piece("outage_reason", "electricity", "ar", "ar",
                                 outage_reason[1])>>
                    ELSE <<>>)
                \o (IF estimated # None
                    THEN <<Piece("estimated_restoration", "electricity", "ar", "ar",
                                 estimated[1])>>
                    ELSE <<>>)
        IN  IF maint_status = "IN_PROGRESS" /\ "AR_kahraba" \in affected
            THEN _one_line(note \o MaintText)
            ELSE IF ~is_paid
            THEN _one_line(<<Piece("unpaid", "electricity", tl, Script(tl), outstanding)>>)
            ELSE IF note # <<>>
            THEN _one_line(note \o <<Piece("paid_wait", "electricity", tl,
                                          MixScript(tl, zone_name), contract)>>)
            ELSE _one_line(<<Piece("technical", "electricity", tl,
                                   MixScript(tl, zone_name), contract)>>)

\* run_agent._answer_elec, on the records its lookups returned
_answer_elec(user, zone, contract, lang) ==
    LET tl == TemplateLang(lang)
    IN  IF user = None
        THEN _one_line(<<Piece("not_found", "electricity", tl, Script(tl), contract)>>)
        ELSE
        LET u == user[1]
            note == _build_reactivation_note(Get(u, "last_payment_datetime"),
                        "AR_alkahraba", Get(u, "seconds_since_payment"), "ar",
                        WINDOW_SECONDS)
            is_paid == u.is_paid
            outstanding == u.outstanding_balance
            cut_status == u.cut_status
            zone_name == IF zone # None THEN zone[1].zone_name
                         ELSE DefaultZoneName(lang)
            maint_status == IF zone # None THEN zone[1].maintenance_status ELSE ""
            affected == IF zone # None THEN zone[1].affected_services ELSE {}
            outage_reason == IF zone # None THEN zone[1].outage_reason ELSE None
            estimated == IF zone # None THEN zone[1].estimated_restoration
                         ELSE None
            \* base = {"fr": ..., "en": ..., "ar": ...}.get(lang, Arabic)
            bl == IF lang \in {"fr", "en", "ar"} THEN lang ELSE "ar"
            MaintText ==
                <<Piece("maintenance", "electricity", bl, MixScript(bl, zone_name),
                        contract)>>
                \o (IF outage_reason # None
                    THEN <<Piece("outage_reason", "electricity", "ar", "ar",
                                 outage_reason[1])>>
                    ELSE <<>>)
                \o (IF estimated # None
                    THEN <<Piece("estimated_restoration", "electricity", "ar", "ar",
                                 estimated[1])>>
                    ELSE <<>>)
        IN  IF maint_status = "IN_PROGRESS" /\ "AR_kahraba" \in affected
            THEN _one_line(note \o MaintText)
            ELSE IF (~is_paid) \/ (outstanding > 0)
            THEN _one_line(<<Piece("unpaid", "electricity", tl, Script(tl), outstanding)>>)
            ELSE IF note # <<>>
            THEN _one_line(note \o <<Piece("paid_wait", "electricity", tl,
                                          MixScript(tl, zone_name), contract)>>)
            ELSE _one_line(<<Piece("technical", "electricity", tl,
                                   MixScript(tl, zone_name), contract)>>)

\* ------------------------------------------------------------------ the tools
Ws == Piece("ws", "", "", "latin", "")

\* _check_water_payment_impl on the record its lookup returned
_check_water_payment_impl(user, water_contract) ==
    IF user = None
    THEN <<Piece("WATER_CONTRACT_NOT_FOUND", "water", "en", "latin",
                 water_contract)>>
    ELSE LET u == user[1]
             reactivation_note ==
                 _build_reactivation_note(Get(u, "last_payment_datetime"),
                     "AR_alma", Get(u, "seconds_since_payment"), "ar",
                     WINDOW_SECONDS)
         IN  IF u.is_paid
             THEN reactivation_note
                  \o <<Piece("WATER_PAYMENT_STATUS_PAID", "water", "en", "ar",
                             u.outstanding_balance), Ws,
                       Piece("payment_details", "water", "en", "ar",
                             u.cut_status), Ws>>
             ELSE <<Ws, Piece("WATER_PAYMENT_STATUS_UNPAID", "water", "en", "ar",
                              u.outstanding_balance), Ws,
                    Piece("payment_details", "water", "en", "ar",
                          u.cut_status), Ws>>

\* _check_water_maintenance_impl on the records its lookups returned
_check_water_maintenance_impl(user, zone, water_contract) ==
    IF user = None
    THEN <<Piece("WATER_CONTRACT_NOT_FOUND", "water", "en", "latin",
                 water_contract)>>
    ELSE IF zone = None
    THEN <<Piece("ZONE_NOT_FOUND", "water", "en", "latin", "")>>
    ELSE IF zone[1].maintenance_status = "IN_PROGRESS"
            /\ "AR_ma" \in zone[1].affected_services
    THEN <<Ws, Piece("WATER_MAINTENANCE_IN_PROGRESS", "water", "en", "ar",
                     zone[1].outage_reason), Ws>>
    ELSE <<Ws, Piece("NO_WATER_MAINTENANCE", "water", "en", "ar", ""), Ws>>

\* _check_electricity_payment_impl on the record its lookup returned
_check_electricity_payment_impl(user, electricity_contract) ==
    IF user = None
    THEN <<Piece("ELECTRICITY_CONTRACT_NOT_FOUND", "electricity", "en", "latin",
                 electricity_contract)>>
    ELSE LET u == user[1]
             reactivation_note ==
                 _build_reactivation_note(Get(u, "last_payment_datetime"),
                     "AR_alkahraba", Get(u, "seconds_since_payment"), "ar",
                     WINDOW_SECONDS)
         IN  IF u.is_paid
             THEN reactivation_note
                  \o <<Piece("ELECTRICITY_PAYMENT_STATUS_PAID", "electricity",
                             "en", "ar", u.outstanding_balance), Ws,
                       Piece("payment_details", "electricity", "en", "ar",
                             u.cut_status), Ws>>
             ELSE <<Ws, Piece("ELECTRICITY_PAYMENT_STATUS_UNPAID", "electricity",
                              "en", "ar", u.outstanding_balance), Ws,
                    Piece("payment_details", "electricity", "en", "ar",
                          u.cut_status), Ws>>

\* _check_electricity_maintenance_impl on the records its lookups returned
_check_electricity_maintenance_impl(user, zone, electricity_contract) ==
    IF user = None
    THEN <<Piece("ELECTRICITY_CONTRACT_NOT_FOUND", "electricity", "en", "latin",
                 electricity_contract)>>
    ELSE IF zone = None
    THEN <<Piece("ZONE_NOT_FOUND", "electricity", "en", "latin", "")>>
    ELSE IF zone[1].maintenance_status = "IN_PROGRESS"
            /\ "AR_kahraba" \in zone[1].affected_services
    THEN <<Ws, Piece("ELECTRICITY_MAINTENANCE_IN_PROGRESS", "electricity", "en",
                     "ar", zone[1].outage_reason), Ws>>
    ELSE <<Ws, Piece("NO_ELECTRICITY_MAINTENANCE", "electricity", "en", "ar", ""),
           Ws>>

tools == <<"check_water_payment", "check_water_maintenance",
           "check_electricity_payment", "check_electricity_maintenance">>

\* tool_args that lack the parameter of the tool: t.invoke raises
NoArgs == "{}"

\* t.invoke(tool_args) for the tool named name: the possible outcomes, each
\* with the tool's result and the lookups it made; None as result when no
\* tool of the list has that name; raises when the arguments do not fit the
\* tool
ToolInvoke(name, arg) ==
    IF arg = NoArgs
    THEN {[result |-> None, lookups |-> <<>>,
           raises |-> \E i \in 1..Len(tools) : tools[i] = name]}
    ELSE
    CASE name = "check_water_payment" ->
            {[result |-> Some(_check_water_payment_impl(user, arg)),
              lookups |-> <<"get_user_by_water_contract">>, raises |-> FALSE]
             : user \in get_user_by_water_contract(arg)}
      [] name = "check_water_maintenance" ->
            {[result |-> Some(_check_water_maintenance_impl(user, ZoneOf(user),
                                                            arg)),
              lookups |-> AnswerLookups("get_user_by_water_contract", user),
              raises |-> FALSE]
             : user \in get_user_by_water_contract(arg)}
      [] name = "check_electricity_payment" ->
            {[result |-> Some(_check_electricity_payment_impl(user, arg)),
              lookups |-> <<"get_user_by_electricity_contract">>,
              raises |-> FALSE]
             : user \in get_user_by_electricity_contract(arg)}
      [] name = "check_electricity_maintenance" ->
            {[result |-> Some(_check_electricity_maintenance_impl(user,
                                  ZoneOf(user), arg)),
              lookups |-> AnswerLookups("get_user_by_electricity_contract", user),
              raises |-> FALSE]
             : user \in get_user_by_electricity_contract(arg)}
      [] OTHER -> {[result |-> None, lookups |-> <<>>, raises |-> FALSE]}

\* is the piece the Arabic reactivation sentence (it starts with the Arabic
\* word for "service" and contains the Arabic "payment received" phrase)
IsArabicNote(p) == p.seg = "note" /\ p.lang = "ar"

\* the pieces of text from index i up to the end of the line
RECURSIVE LineFrom(_, _)
LineFrom(text, i) ==
    IF i > Len(text) \/ text[i].seg = "ws" THEN <<>>
    ELSE <<text[i]>> \o LineFrom(text, i + 1)

\* run_agent._extract_reactivation_note: the first line that starts with the
\* Arabic reactivation sentence, "" when there is none
_extract_reactivation_note(tool_text) ==
    LET starts == {i \in 1..Len(tool_text) :
                      /\ IsArabicNote(tool_text[i])
                      /\ (i = 1 \/ tool_text[i - 1].seg = "ws")}
    IN  IF starts = {} THEN <<>>
        ELSE LineFrom(tool_text, CHOOSE i \in starts : \A j \in starts : i <= j)

\* ------------------------------------------------------------------ run_agent
\* WATER_RE = (3701\d{6,}\s*/\s*\d{4,}) and ELEC_RE = (4801\d{6,}\s*/\s*\d{4,}),
\* unanchored: the string matches from its start when it has the shape
ShapeMatches(tok, prefix) ==
    LET sh == Shape(tok)
    IN  sh.prefix = prefix /\ sh.lead >= 6 /\ sh.sep /\ sh.tail >= 4

\* the leftmost match of the pattern inside one token, None without a match
RE_match(tok, prefix) ==
    LET cands == <<tok>> \o Inner(tok)
        hits == {k \in 1..Len(cands) : ShapeMatches(cands[k], prefix)}
    IN  IF hits = {} THEN None
        ELSE Some(cands[CHOOSE k \in hits : \A j \in hits : k <= j])

WATER_RE_tok(tok) == RE_match(tok, "3701") # None

ELEC_RE_tok(tok) == RE_match(tok, "4801") # None

\* WATER_RE.search(user_input): the leftmost match, None without a match
WATER_RE_search(text) ==
    LET hits == {i \in 1..Len(text) : WATER_RE_tok(text[i])}
    IN  IF hits = {} THEN None
        ELSE RE_match(text[CHOOSE i \in hits : \A j \in hits : i <= j], "3701")

ELEC_RE_search(text) ==
    LET hits == {i \in 1..Len(text) : ELEC_RE_tok(text[i])}
    IN  IF hits = {} THEN None
        ELSE RE_match(text[CHOOSE i \in hits : \A j \in hits : i <= j], "4801")

\* mutant: the service of the oldest user message that classifies
HistoryService_oldest(chat_history, i) ==
    LET U == {j \in 1..i : /\ chat_history[j].role = "user"
                           /\ detect_service(chat_history[j].content) # "unknown"}
    IN  IF U = {} THEN "unknown"
        ELSE detect_service(chat_history[CHOOSE j \in U : \A k \in U : j <= k].content)

\* the loop `for msg in reversed(chat_history)` of run_agent: the service of
\* the most recent user message that detect_service classifies
RECURSIVE HistoryService(_, _)
HistoryService(chat_history, i) ==
    IF i = 0 THEN "unknown"
    ELSE IF chat_history[i].role = "user"
            /\ detect_service(chat_history[i].content) # "unknown"
    THEN detect_service(chat_history[i].content)
    ELSE HistoryService(chat_history, i - 1)

\* the requested service of the turn
EffectiveService(user_input, chat_history) ==
    IF detect_service(user_input) = "unknown"
    THEN HistoryService(chat_history, Len(chat_history))
    ELSE detect_service(user_input)

mismatch_message(expected, got, lang) ==
    LET l == TemplateLang(lang)
    IN  <<Piece("mismatch", expected, l, Script(l), got)>>

\* mutant: a contract of the wrong type is left to the model
Route_no_mismatch(service, w, e) ==
    IF service = "water"
    THEN (IF w # None THEN "answer_water" ELSE "model")
    ELSE IF service = "electricity"
    THEN (IF e # None THEN "answer_elec" ELSE "model")
    ELSE IF service = "both"
    THEN (IF w # None THEN "answer_water"
          ELSE IF e # None THEN "mismatch_water" ELSE "model")
    ELSE "model"

\* mutant: the model is asked even when the contract matches the service
Route_model_first(service, w, e) ==
    IF service = "water"
    THEN (IF e # None /\ w = None THEN "mismatch_water" ELSE "model")
    ELSE IF service = "electricity"
    THEN (IF w # None /\ e = None THEN "mismatch_elec" ELSE "model")
    ELSE IF service = "both"
    THEN (IF w # None THEN "answer_water"
          ELSE IF e # None THEN "mismatch_water" ELSE "model")
    ELSE "model"

\* mutant: a turn without a contract gets the correction instead of the model
Route_no_fallback(service, w, e) ==
    IF service = "water"
    THEN (IF w # None THEN "answer_water" ELSE "mismatch_water")
    ELSE IF service = "electricity"
    THEN (IF e # None THEN "answer_elec" ELSE "mismatch_elec")
    ELSE IF service = "both"
    THEN (IF w # None THEN "answer_water"
          ELSE IF e # None THEN "mismatch_water" ELSE "model")
    ELSE "model"

\* the branch of `2. Only accept the correct contract type` run_agent takes
Route(service, w, e) ==
    IF service = "water"
    THEN (IF w # None THEN "answer_water"
          ELSE IF e # None THEN "mismatch_water" ELSE "model")
    ELSE IF service = "electricity"
    THEN (IF e # None THEN "answer_elec"
          ELSE IF w # None THEN "mismatch_elec" ELSE "model")
    ELSE IF service = "both"
    THEN (IF w # None THEN "answer_water"
          ELSE IF e # None THEN "mismatch_water" ELSE "model")
    ELSE "model"

\* the tool-call loop over the first n tool calls: the possible outcomes, each
\* with the last reactivation hint found, the lookups made, the tool messages
\* appended and whether a t.invoke raised, which ends the loop
RECURSIVE ExecTools(_, _)
ExecTools(tool_calls, n) ==
    IF n = 0
    THEN {[hint |-> <<>>, lookups |-> <<>>, fed |-> <<>>, raised |-> FALSE]}
    ELSE UNION {IF prev.raised THEN {prev}
                ELSE {[hint |-> IF r.result # None
                                   /\ _extract_reactivation_note(r.result[1]) # <<>>
                                THEN _extract_reactivation_note(r.result[1])
                                ELSE prev.hint,
                       lookups |-> prev.lookups \o r.lookups,
                       fed |-> IF r.result # None
                               THEN Append(prev.fed, tool_calls[n].name)
                               ELSE prev.fed,
                       raised |-> r.raises]
                      : r \in ToolInvoke(tool_calls[n].name, tool_calls[n].arg)}
                : prev \in ExecTools(tool_calls, n - 1)}

\* "the Arabic payment-received phrase" in final_text
HasPaymentPhrase(text) ==
    \E i \in 1..Len(text) : IsArabicNote(text[i]) \/ text[i].seg = "model_phrase"

\* the language the language_instruction appended to SYSTEM_PROMPT names
language_instruction(lang) == IF lang \in {"ar", "en", "fr"} THEN lang ELSE "ar"

\* the except branch: the Arabic apology with str(e)
ErrorText == <<Piece("error", "", "ar", "ar", "")>>

ReplyLang(language, user_input, chat_history) ==
    IF language # "" THEN language
    ELSE infer_language_from_thread(user_input, chat_history)

\* run_agent(llm, user_input, chat_history, language): the possible results.
\* llm.first and llm.second are what the two agent.invoke calls do:
\* [raises, content, tool_calls].  A result carries the returned string and
\* what the call did: the reply language, the requested service, the branch,
\* the lookups in order, the number of agent.invoke calls, the language of
\* the override of the system prompt ("" when no prompt was built) and the
\* tools whose result was fed back.
run_agent(llm, user_input, chat_history, language) ==
    LET lang == ReplyLang(language, user_input, chat_history)
        service == EffectiveService(user_input, chat_history)
        w == WATER_RE_search(user_input)
        e == ELEC_RE_search(user_input)
        branch == Route(service, w, e)
        Res(response, path, lookups, model_calls, override, fed) ==
            [response |-> response, lang |-> lang, service |-> service,
             w |-> w, e |-> e, path |-> path, lookups |-> lookups,
             model_calls |-> model_calls, override |-> override, fed |-> fed,
             answered |-> "", user |-> None, zone |-> None]
        \* a deterministic answer, with the records its lookups returned
        Det(response, answered, first, user) ==
            [Res(response, "deterministic", AnswerLookups(first, user), 0, "",
                 <<>>)
             EXCEPT !.answered = answered, !.user = user, !.zone = ZoneOf(user)]
        ov == language_instruction(lang)
    IN  CASE branch = "answer_water" ->
                {Det(_answer_water(user, ZoneOf(user), w[1], lang), "water",
                     "get_user_by_water_contract", user)
                 : user \in get_user_by_water_contract(w[1])}
          [] branch = "answer_elec" ->
                {Det(_answer_elec(user, ZoneOf(user), e[1], lang), "electricity",
                     "get_user_by_electricity_contract", user)
                 : user \in get_user_by_electricity_contract(e[1])}
          [] branch = "mismatch_water" ->
                {Res(_one_line(mismatch_message("water", "electricity", lang)),
                     "mismatch", <<>>, 0, "", <<>>)}
          [] branch = "mismatch_elec" ->
                {Res(_one_line(mismatch_message("electricity", "water", lang)),
                     "mismatch", <<>>, 0, "", <<>>)}
          [] OTHER ->
                IF llm.first.raises
                THEN {Res(_one_line(ErrorText), "error", <<>>, 1, ov, <<>>)}
                ELSE IF llm.first.tool_calls # <<>>
                THEN {IF run.raised
                      THEN Res(_one_line(ErrorText), "error", run.lookups, 1, ov,
                               run.fed)
                      ELSE IF llm.second.raises
                      THEN Res(_one_line(ErrorText), "error", run.lookups, 2, ov,
                               run.fed)
                      ELSE LET final_text == llm.second.content
                           IN  Res(_one_line(
                                     IF run.hint # <<>>
                                        /\ ~HasPaymentPhrase(final_text)
                                     THEN run.hint \o final_text
                                     ELSE final_text),
                                   "model_tools", run.lookups, 2, ov, run.fed)
                      : run \in ExecTools(llm.first.tool_calls,
                                          Len(llm.first.tool_calls))}
                ELSE {Res(_one_line(llm.first.content), "model", <<>>, 1, ov,
                          <<>>)}

\* ------------------------------------------------------- the generative model
ModelAr == <<Piece("model", "", "ar", "ar", "")>>
ModelEn == <<Piece("model", "", "en", "latin", "")>>
\* a reply that spans several lines
ModelLines == <<Piece("model", "", "fr", "latin", ""), Ws,
                Piece("model", "", "fr", "latin", "")>>

Reply(content, tool_calls) ==
    [raises |-> FALSE, content |-> content, tool_calls |-> tool_calls]
Raises == [raises |-> TRUE, content |-> <<>>, tool_calls |-> <<>>]

ToolCall(name, arg) == [name |-> name, arg |-> arg]

\* what the first agent.invoke can do when it requests no tool
PlainReplies == {Raises} \cup {Reply(c, <<>>) : c \in {ModelAr, ModelEn, ModelLines, <<>>}}

\* the tool calls a first reply can request
ToolRequests ==
    {<<ToolCall("check_water_payment", W1), ToolCall("check_water_maintenance", W1)>>,
     <<ToolCall("check_electricity_maintenance", E0)>>,
     <<ToolCall("check_electricity_payment", E1)>>,
     <<ToolCall("get_weather", "")>>,
     <<ToolCall("check_water_payment", NoArgs),
       ToolCall("check_water_maintenance", W1)>>}

\* what the second agent.invoke can do
FinalReplies ==
    {Raises, Reply(ModelAr, <<>>), Reply(ModelEn, <<>>),
     Reply(ModelAr, <<ToolCall("check_electricity_payment", E1)>>)}

\* the behaviours of the model within one run_agent call
Agents ==
    {[first |-> f, second |-> Raises] : f \in PlainReplies}
    \cup {[first |-> Reply(<<>>, tc), second |-> g]
          : tc \in ToolRequests, g \in FinalReplies}

\* the model is not consulted
NoAgent == [first |-> Raises, second |-> Raises]

\* the behaviours the endpoints are run with
SysAgents ==
    {[first |-> f, second |-> Raises]
     : f \in {Raises, Reply(ModelAr, <<>>), Reply(ModelEn, <<>>), Reply(<<>>, <<>>)}}
    \cup {[first |-> Reply(<<>>, <<ToolCall("check_water_payment", W1)>>),
           second |-> Reply(ModelAr, <<>>)]}

\* the behaviours to draw for a turn out of A: one when run_agent answers
\* without the model
AgentsFor(A, user_input, chat_history) ==
    IF Route(EffectiveService(user_input, chat_history),
             WATER_RE_search(user_input), ELEC_RE_search(user_input)) = "model"
    THEN A ELSE {NoAgent}

\* ------------------------------------------------------- conversation store
ConvIds == {"c1"}

Message(role, content) == [role |-> role, content |-> content]

\* get_conversation_history: the list of the conversation itself
get_conversation_history(conversation_id) ==
    IF conversation_id \in DOMAIN conversations_store
    THEN conversations_store[conversation_id] ELSE <<>>

\* mutant: the message is put in front of the conversation
add_message_to_conversation_front(store, conversation_id, role, content) ==
    IF conversation_id \in DOMAIN store
    THEN [store EXCEPT ![conversation_id] = <<Message(role, content)>> \o @]
    ELSE store

\* add_message_to_conversation applied to a store
add_message_to_conversation(store, conversation_id, role, content) ==
    IF conversation_id \in DOMAIN store
    THEN [store EXCEPT ![conversation_id] = Append(@, Message(role, content))]
    ELSE store

\* create_conversation: the store with a conversation of a fresh id
create_conversation(store, conversation_id) ==
    store @@ (conversation_id :> <<>>)

\* the user messages of the requests
Messages ==
    {<<"hello">>, <<"bonjour">>, <<"water">>, <<"AR_mochkil", "AR_alkahraba">>,
     <<"eau", "electricite">>, <<W1>>, <<E1>>, <<"water", W1>>, <<"eau", E1>>,
     <<"electricity", W1>>, <<"electricity", E0>>, <<"water", E1, W1>>,
     <<"electricity", EW>>, <<"water", X1>>}

\* the user messages the endpoints are run with
SysMessages ==
    {<<"hello">>, <<"water">>, <<"eau", "electricite">>, <<W1>>, <<E1>>,
     <<"water", W1>>}

\* the `language` field of a /chat request: absent fields take the default "ar"
LangParams == {"ar", "fr", "en", ""}

\* the empty-response fallback of chat
FallbackText == <<Piece("fallback", "", "ar", "ar", "")>>

IsBlank(text) == \A i \in 1..Len(text) : text[i].seg = "ws"

\* the payload of chat has no "action" key
NoAction == [type |-> "NONE", contract_number |-> None, invoice_type |-> None]

\* a reply of the extraction model: llm.invoke raises, or resp.content is text
\* that json.loads turns into a dict (content = <<dict>>), or text that is
\* not JSON or not a JSON object (content = None).  A key the dict lacks and a
\* null value both read as None; type "NONE" is a null type.
ExtractorReply(raises, content) == [raises |-> raises, content |-> content]

ExtractorDicts ==
    [type : {"NONE", "PAY_INVOICE", "NEED_CONTRACT"},
     contract_number : {None, Some(W1)},
     invoice_type : {None, Some("water"), Some("gas")}]

\* every reply of the extraction model that is drawn
ExtractorReplies ==
    {ExtractorReply(TRUE, None), ExtractorReply(FALSE, None)}
    \cup {ExtractorReply(FALSE, Some(d)) : d \in ExtractorDicts}

\* the replies of the extraction model the endpoints are run with
ActionResults == {ExtractorReply(TRUE, None), ExtractorReply(FALSE, None)}

\* extract_action after llm.invoke returned: the parsed dict, {"type": None}
\* when the content is not a JSON object
extract_action(content) == IF content = None THEN NoAction ELSE content[1]

\* chat._explicit_pay_intent: a keyword of payment is in the text
_explicit_pay_intent(text) == \E i \in 1..Len(text) : text[i] = "pay"

\* the "action" of the payload chat builds from the extracted data
ActionPayload(data) ==
    IF data.type = "PAY_INVOICE"
    THEN [type |-> "PAY_INVOICE", contract_number |-> data.contract_number,
          invoice_type |-> data.invoice_type]
    ELSE IF data.type = "NEED_CONTRACT"
    THEN [type |-> "NEED_CONTRACT", contract_number |-> None,
          invoice_type |-> data.invoice_type]
    ELSE NoAction

\* the trace of a request that ran run_agent
Ran(endpoint, status, conversation_id, text, language, chat_history, llm, r, response) ==
    [endpoint |-> endpoint, status |-> status, cid |-> conversation_id,
     text |-> text, language |-> language, history |-> chat_history,
     agent |-> llm, ran |-> TRUE, response |-> response, action |-> NoAction,
     lang |-> r.lang, service |-> r.service, w |-> r.w, e |-> r.e,
     path |-> r.path, lookups |-> r.lookups, model_calls |-> r.model_calls,
     override |-> r.override, fed |-> r.fed, answered |-> r.answered,
     user |-> r.user, zone |-> r.zone, returned |-> r.response]

\* the trace of a request that ended before run_agent
NotRan(endpoint, status, conversation_id, text, language) ==
    [endpoint |-> endpoint, status |-> status, cid |-> conversation_id,
     text |-> text, language |-> language, history |-> <<>>,
     agent |-> NoAgent, ran |-> FALSE, response |-> <<>>, action |-> NoAction,
     lang |-> "", service |-> "", w |-> None, e |-> None,
     path |-> "", lookups |-> <<>>, model_calls |-> 0,
     override |-> "", fed |-> <<>>, answered |-> "",
     user |-> None, zone |-> None, returned |-> <<>>]

NoTurn == NotRan("", 0, "", <<>>, "")

\* the conversation a request without conversation_id creates
FreshId(store) == CHOOSE c \in ConvIds : c \notin DOMAIN store

\* the requests a client can send: no conversation_id while an id is free, a
\* stored id, or an id that is not stored
RequestIds == {None} \cup {Some(c) : c \in ConvIds \cup {"bad"}}

\* a request without conversation_id is drawn while an id is free
HasFreeId(cid) == cid = None => DOMAIN conversations_store # ConvIds

CanHandle(cid) ==
    /\ requests < MaxTurns
    /\ HasFreeId(cid)

Handled ==
    /\ requests' = requests + 1
    /\ UNCHANGED <<water_invoices, electricity_invoices, zones, now, unreachable, inflight,
                   pf>>

\* ------------------------------------------------------------------ endpoints
\* get_agent(): the cached agent, else initialize_agent, which can fail
AgentOutcomes == IF agent THEN {TRUE} ELSE {TRUE, FALSE}

\* POST /chat, with the requests drawn from Msgs, Ids and Langs and the
\* collaborators from Ags and Acts, while fewer than limit requests were handled
ChatWith(limit, Msgs, Ids, Langs, Ags, Acts) ==
    \E text \in Msgs, cid \in Ids, language \in Langs :
      /\ requests < limit
      /\ HasFreeId(cid)
      /\ Handled
      /\ IF cid # None /\ cid[1] \notin DOMAIN conversations_store
         THEN /\ turn' = NotRan("chat", 404, cid[1], text, language)
              /\ UNCHANGED <<conversations_store, agent>>
         ELSE LET conversation_id ==
                      IF cid = None THEN FreshId(conversations_store) ELSE cid[1]
                  store1 ==
                      IF cid = None
                      THEN create_conversation(conversations_store, conversation_id)
                      ELSE conversations_store
                  chat_history == store1[conversation_id]
              IN  \E agent_instance \in AgentOutcomes :
                    /\ agent' = agent_instance
                    /\ IF ~agent_instance
                       THEN /\ turn' = NotRan("chat", 500, conversation_id, text,
                                              language)
                            /\ conversations_store' = store1
                       ELSE \E llm \in AgentsFor(Ags, text, chat_history),
                               act \in Acts :
                            \E r \in run_agent(llm, text, chat_history, language) :
                              LET response_text ==
                                      IF IsBlank(r.response) THEN FallbackText
                                      ELSE r.response
                              IN  IF act.raises
                                  THEN /\ turn' = Ran("chat", 500, conversation_id,
                                                      text, language, chat_history,
                                                      llm, r, response_text)
                                       /\ conversations_store' = store1
                                  ELSE /\ turn' =
                                            [Ran("chat", 200, conversation_id, text,
                                                 language, chat_history, llm, r,
                                                 response_text)
                                             EXCEPT !.action = ActionPayload(
                                                 extract_action(act.content))]
                                       /\ conversations_store' =
                                            add_message_to_conversation(
                                              add_message_to_conversation(store1,
                                                conversation_id, "user", text),
                                              conversation_id, "assistant",
                                              response_text)

Chat == ChatWith(MaxTurns, SysMessages, RequestIds, LangParams, SysAgents, ActionResults)

\* POST /chat/audio
ChatWithAudio ==
    \E text \in SysMessages, cid \in RequestIds :
      /\ CanHandle(cid)
      /\ Handled
      /\ IF cid # None /\ cid[1] \notin DOMAIN conversations_store
         THEN /\ turn' = NotRan("chat_with_audio", 404, cid[1], text, "ar")
              /\ UNCHANGED <<conversations_store, agent>>
         ELSE LET conversation_id ==
                      IF cid = None THEN FreshId(conversations_store) ELSE cid[1]
                  store1 ==
                      IF cid = None
                      THEN create_conversation(conversations_store, conversation_id)
                      ELSE conversations_store
                  chat_history == store1[conversation_id]
              IN  \E agent_instance \in AgentOutcomes :
                    /\ agent' = agent_instance
                    /\ IF ~agent_instance
                       THEN /\ turn' = NotRan("chat_with_audio", 500,
                                              conversation_id, text, "ar")
                            /\ conversations_store' = store1
                       ELSE \E llm \in AgentsFor(SysAgents, text, chat_history),
                               tts_ok \in BOOLEAN :
                            \E r \in run_agent(llm, text, chat_history, "ar") :
                              /\ turn' = Ran("chat_with_audio",
                                             IF tts_ok THEN 200 ELSE 500,
                                             conversation_id, text, "ar",
                                             chat_history, llm, r, r.response)
                              /\ conversations_store' =
                                   add_message_to_conversation(
                                     add_message_to_conversation(store1,
                                       conversation_id, "user", text),
                                     conversation_id, "assistant", r.response)

\* POST /speech-to-chat, text being the transcribed speech; the history
\* handed to run_agent is the list of the store, to which the user message
\* was appended before the call
SpeechToChat ==
    \E text \in SysMessages, cid \in RequestIds :
      /\ CanHandle(cid)
      /\ Handled
      /\ IF cid # None /\ cid[1] \notin DOMAIN conversations_store
         THEN /\ turn' = NotRan("speech_to_chat", 404, cid[1], text, "ar")
              /\ UNCHANGED <<conversations_store, agent>>
         ELSE LET conversation_id ==
                      IF cid = None THEN FreshId(conversations_store) ELSE cid[1]
                  store1 ==
                      IF cid = None
                      THEN create_conversation(conversations_store, conversation_id)
                      ELSE conversations_store
                  store2 == add_message_to_conversation(store1, conversation_id,
                                                        "user", text)
                  chat_history == store2[conversation_id]
              IN  \E agent_instance \in AgentOutcomes :
                    /\ agent' = agent_instance
                    /\ IF ~agent_instance
                       THEN /\ turn' = NotRan("speech_to_chat", 500,
                                              conversation_id, text, "ar")
                            /\ conversations_store' = store2
                       ELSE \E llm \in AgentsFor(SysAgents, text, chat_history) :
                            \E r \in run_agent(llm, text, chat_history, "ar") :
                              /\ turn' = Ran("speech_to_chat", 200,
                                             conversation_id, text, "ar",
                                             chat_history, llm, r, r.response)
                              /\ conversations_store' =
                                   add_message_to_conversation(store2,
                                     conversation_id, "assistant", r.response)

\* ------------------------------------------------------------ POST /pay_invoice
\* (data.get('invoice_type') or "electricity").strip().lower()
InvoiceType(field) ==
    CASE field = "" -> "electricity"
      [] field = "WATER" -> "water"
      [] OTHER -> field

\* the row an UPDATE of pay_invoice leaves
PaidRow(row) ==
    [row EXCEPT !.is_paid = TRUE, !.outstanding_balance = 0,
                !.last_payment_datetime = Some(now), !.cut_status = "OK"]

\* the status pay_invoice answers with
PayStatus(contract_number, invoice_type) ==
    IF contract_number = "" THEN 400
    ELSE IF invoice_type = "electricity"
    THEN IF "electricity_invoices" \in unreachable THEN 500
         ELSE IF contract_number \in DOMAIN electricity_invoices THEN 200 ELSE 404
    ELSE IF invoice_type = "water"
    THEN IF "water_invoices" \in unreachable THEN 500
         ELSE IF contract_number \in DOMAIN water_invoices THEN 200 ELSE 404
    ELSE IF "water_invoices" \in unreachable THEN 500 ELSE 400

PayContracts == {W1, E1, W2, ""}

PayTypes == {"electricity", "water", "WATER", "gas", ""}

pay_invoice ==
    \E contract_number \in PayContracts, field \in PayTypes :
      LET invoice_type == InvoiceType(field)
          status == PayStatus(contract_number, invoice_type)
      IN  /\ requests < MaxTurns
          /\ requests' = requests + 1
          /\ pf' = [fn |-> "pay_invoice", done |-> TRUE,
                    contract_number |-> contract_number,
                    invoice_type |-> invoice_type, status |-> status, at |-> now]
          /\ IF status = 200 /\ invoice_type = "electricity"
             THEN /\ electricity_invoices' =
                        [electricity_invoices EXCEPT ![contract_number] = PaidRow(@)]
                  /\ UNCHANGED water_invoices
             ELSE IF status = 200
             THEN /\ water_invoices' =
                        [water_invoices EXCEPT ![contract_number] = PaidRow(@)]
                  /\ UNCHANGED electricity_invoices
             ELSE UNCHANGED <<water_invoices, electricity_invoices>>
          /\ UNCHANGED <<zones, now, unreachable, conversations_store, agent, turn,
                         inflight>>

\* --------------------------------------------------------------- the system
\* the rows of user 1 and of zone 1 as data/mock_db.py seeds them
SeedWater ==
    W1 :> [zone_id |-> 1, is_paid |-> TRUE, outstanding_balance |-> 0,
           cut_status |-> "OK", last_payment_datetime |-> None]
SeedElectricity ==
    E1 :> [zone_id |-> 1, is_paid |-> TRUE, outstanding_balance |-> 0,
           cut_status |-> "OK", last_payment_datetime |-> None]
SeedZones ==
    1 :> [zone_name |-> "AR_zone", maintenance_status |-> "IN_PROGRESS",
          affected_services |-> {"AR_ma"}, outage_reason |-> Some("AR_reason"),
          estimated_restoration |-> Some("2024-12-04 18:00")]

NoCall == [fn |-> "", done |-> TRUE]

Init ==
    /\ water_invoices = SeedWater
    /\ electricity_invoices = SeedElectricity
    /\ zones = SeedZones
    /\ now = 0
    /\ unreachable = {}
    /\ inflight = NoThreads
    /\ conversations_store = [c \in {} |-> <<>>]
    /\ agent = FALSE
    /\ requests = 0
    /\ turn = NoTurn
    /\ pf = NoCall

Next == Chat \/ ChatWithAudio \/ SpeechToChat

Spec == Init /\ [][Next]_vars

\* ------------------------------------------- calls of one function on its own
\* _build_reactivation_note applied to drawn arguments
Windows == {WINDOW_SECONDS \div 2, WINDOW_SECONDS}

InitNote ==
    /\ water_invoices = SeedWater
    /\ electricity_invoices = SeedElectricity
    /\ zones = SeedZones
    /\ now = 0
    /\ unreachable = {}
    /\ inflight = NoThreads
    /\ conversations_store = [c \in {} |-> <<>>]
    /\ agent = FALSE
    /\ requests = 0
    /\ turn = NoTurn
    /\ pf \in {[fn |-> "_build_reactivation_note", done |-> FALSE,
                payment_timestamp |-> ts, service |-> sv,
                seconds_since_payment |-> sec, lang |-> l,
                window_seconds |-> w, out |-> <<>>]
               : ts \in {None, Some(0)},
                 sv \in {"AR_alma", "AR_alkahraba"},
                 sec \in {None} \cup {Some(n) : n \in (0 - MaxSkew)..MaxElapsed},
                 l \in {"ar", "fr", "en", "es"},
                 w \in Windows}

CallNote ==
    /\ pf.fn = "_build_reactivation_note" /\ ~pf.done
    /\ pf' = [pf EXCEPT !.done = TRUE,
                        !.out = _build_reactivation_note(pf.payment_timestamp,
                                    pf.service, pf.seconds_since_payment, pf.lang,
                                    pf.window_seconds)]
    /\ UNCHANGED <<water_invoices, electricity_invoices, zones, now, unreachable, inflight,
                   conversations_store, agent, requests, turn>>

NextNote == CallNote

SpecNote == InitNote /\ [][NextNote]_vars

\* infer_language_from_thread applied to drawn arguments
TextsUpTo(n) == UNION {[1..k -> Vocab] : k \in 0..n}

LangMessages ==
    {Message("user", <<"hello">>), Message("user", <<"AR_alma">>),
     Message("assistant", ModelAr), Message("assistant", ModelEn)}

InitLang ==
    /\ water_invoices = SeedWater
    /\ electricity_invoices = SeedElectricity
    /\ zones = SeedZones
    /\ now = 0
    /\ unreachable = {}
    /\ inflight = NoThreads
    /\ conversations_store = [c \in {} |-> <<>>]
    /\ agent = FALSE
    /\ requests = 0
    /\ turn = NoTurn
    /\ pf \in {[fn |-> "infer_language_from_thread", done |-> FALSE,
                user_input |-> text, chat_history |-> h, out |-> ""]
               : text \in TextsUpTo(MaxTokens),
                 h \in UNION {[1..k -> LangMessages] : k \in 0..MaxHist}}

CallInfer ==
    /\ pf.fn = "infer_language_from_thread" /\ ~pf.done
    /\ pf' = [pf EXCEPT !.done = TRUE,
                        !.out = infer_language_from_thread(pf.user_input,
                                                           pf.chat_history)]
    /\ UNCHANGED <<water_invoices, electricity_invoices, zones, now, unreachable, inflight,
                   conversations_store, agent, requests, turn>>

NextLang == CallInfer

SpecLang == InitLang /\ [][NextLang]_vars

\* run_agent called once on a drawn history (SpecRoute) or store (SpecDiag)
HistTexts ==
    {<<"hello">>, <<"water">>, <<"AR_mochkil", "AR_alkahraba">>,
     <<"eau", "electricite">>}

HistReplies == {ModelAr, ModelEn}

\* the histories of at most n exchanges that were answered by the model
RECURSIVE HistoriesUpTo(_)
HistoriesUpTo(n) ==
    IF n = 0 THEN {<<>>}
    ELSE HistoriesUpTo(n - 1)
         \cup {h \o <<Message("user", t), Message("assistant", a)>>
               : h \in HistoriesUpTo(n - 1), t \in HistTexts, a \in HistReplies}

RunAgent(Msgs) ==
    \E text \in Msgs, language \in LangParams :
      LET chat_history == get_conversation_history("c1")
      IN  /\ ~turn.ran
          /\ \E llm \in AgentsFor(Agents, text, chat_history) :
             \E r \in run_agent(llm, text, chat_history, language) :
               /\ turn' = Ran("run_agent", 0, "c1", text, language,
                              chat_history, llm, r, r.response)
               /\ UNCHANGED <<water_invoices, electricity_invoices, zones, now, unreachable, inflight,
                              conversations_store, agent, requests, pf>>

InitRoute ==
    /\ water_invoices = SeedWater
    /\ electricity_invoices = SeedElectricity
    /\ zones = SeedZones
    /\ now = 0
    /\ unreachable = {}
    /\ inflight = NoThreads
    /\ conversations_store \in {"c1" :> h : h \in HistoriesUpTo(MaxExchanges)}
    /\ agent = TRUE
    /\ requests = 0
    /\ turn = NoTurn
    /\ pf = NoCall

NextRoute == RunAgent(Messages)

SpecRoute == InitRoute /\ [][NextRoute]_vars

\* the invoice rows and the zone tables drawn for the diagnosis
Rows ==
    [zone_id : {1}, is_paid : BOOLEAN, outstanding_balance : {0, 450},
     cut_status : {"OK", "CUT_OFF"}, last_payment_datetime : {None, Some(0)}]

ZoneRows ==
    [zone_name : {"AR_zone"}, maintenance_status : {"IN_PROGRESS", "NONE"},
     affected_services : SUBSET {"AR_ma", "AR_kahraba"},
     outage_reason : {None, Some("AR_reason")},
     estimated_restoration : {None, Some("2024-12-04 18:00")}]

DiagMessages == {<<"water", W1>>, <<"electricity", E1>>, <<"water", W2>>}

\* the failures drawn: none, the zone query, every query
Outages == {{}, {"zones"}, {"water_invoices", "electricity_invoices", "zones"}}

\* the clock: a payment made at 0 is inside the window at the first value
\* and outside at the second
Clocks == {WINDOW_SECONDS \div 4, WINDOW_SECONDS + 30}

InitDiag ==
    /\ \E row \in Rows :
         /\ water_invoices = (W1 :> row)
         /\ electricity_invoices = (E1 :> row)
    /\ zones \in {[z \in {} |-> None]} \cup {1 :> zr : zr \in ZoneRows}
    /\ now \in Clocks
    /\ unreachable \in Outages
    /\ inflight = NoThreads
    /\ conversations_store = ("c1" :> <<>>)
    /\ agent = TRUE
    /\ requests = 0
    /\ turn = NoTurn
    /\ pf = NoCall

NextDiag == RunAgent(DiagMessages)

SpecDiag == InitDiag /\ [][NextDiag]_vars

\* the two lookups applied twice each to a drawn argument on a drawn store
LookupRows ==
    [zone_id : {1}, is_paid : BOOLEAN, outstanding_balance : {0},
     cut_status : {"OK"}, last_payment_datetime : {None}]

WaterArgs == {W1, W2, W3, "3701455886 /", "3701455886", "3701"}

ElectricityArgs == {E1, E0, E3, "4801566997 /", "4801566997", "4801"}

InitLookup ==
    /\ water_invoices \in UNION {[S -> LookupRows] : S \in SUBSET {W1, W3}}
    /\ electricity_invoices \in UNION {[S -> LookupRows] : S \in SUBSET {E1, E3}}
    /\ zones = SeedZones
    /\ now = 0
    /\ unreachable = {}
    /\ inflight = NoThreads
    /\ conversations_store = [c \in {} |-> <<>>]
    /\ agent = FALSE
    /\ requests = 0
    /\ turn = NoTurn
    /\ pf = NoCall

CallWaterLookup ==
    \E arg \in WaterArgs :
    \E r1 \in get_user_by_water_contract(arg) :
    \E r2 \in get_user_by_water_contract(arg) :
      /\ pf = NoCall
      /\ pf' = [fn |-> "get_user_by_water_contract", done |-> TRUE, arg |-> arg,
                outs |-> <<r1, r2>>]
      /\ UNCHANGED <<water_invoices, electricity_invoices, zones, now, unreachable, inflight,
                     conversations_store, agent, requests, turn>>

CallElectricityLookup ==
    \E arg \in ElectricityArgs :
    \E r1 \in get_user_by_electricity_contract(arg) :
    \E r2 \in get_user_by_electricity_contract(arg) :
      /\ pf = NoCall
      /\ pf' = [fn |-> "get_user_by_electricity_contract", done |-> TRUE,
                arg |-> arg, outs |-> <<r1, r2>>]
      /\ UNCHANGED <<water_invoices, electricity_invoices, zones, now, unreachable, inflight,
                     conversations_store, agent, requests, turn>>

NextLookup == CallWaterLookup \/ CallElectricityLookup

SpecLookup == InitLookup /\ [][NextLookup]_vars

\* one /chat request with every drawn reply of the extraction model
ChatMessages ==
    {<<"hello">>, <<W1>>, <<"pay">>, <<"pay", W1>>, <<"water", W1>>, <<"bonjour">>}

ChatOnce == ChatWith(1, ChatMessages, RequestIds, LangParams, SysAgents, ExtractorReplies)

NextChat == ChatOnce

SpecChat == Init /\ [][NextChat]_vars

\* one conversation of /chat turns, answered in Arabic
ConvMessages ==
    {<<"eau", "electricite">>, <<W1>>, <<E1>>, <<"water", W1>>,
     <<"electricity", E1>>}

ConvAgents == {[first |-> Reply(ModelAr, <<>>), second |-> Raises]}

ConvTurn == ChatWith(MaxConvTurns, ConvMessages, {Some("c1")}, {"ar"}, ConvAgents, {ExtractorReply(FALSE, None)})

InitConv ==
    /\ water_invoices = SeedWater
    /\ electricity_invoices = SeedElectricity
    /\ zones = SeedZones
    /\ now = 0
    /\ unreachable = {}
    /\ inflight = NoThreads
    /\ conversations_store = ("c1" :> <<>>)
    /\ agent = TRUE
    /\ requests = 0
    /\ turn = NoTurn
    /\ pf = NoCall

NextConv == ConvTurn

SpecConv == InitConv /\ [][NextConv]_vars

\* two /chat requests of one conversation handled by two threads: each thread
\* runs chat() from the read of the history to the two appends, one statement
\* of the handler after the other, interleaved with the other thread
ConcMessages == {<<"hello">>, <<"water">>, <<W1>>}

\* chat() up to the computed response: history read, run_agent, fallback
ChatRun ==
    \E t \in Threads, text \in ConcMessages :
      LET chat_history == get_conversation_history("c1")
      IN  /\ inflight[t].pc = "idle"
          /\ \E llm \in AgentsFor(ConvAgents, text, chat_history) :
             \E r \in run_agent(llm, text, chat_history, "ar") :
               inflight' = [inflight EXCEPT ![t] =
                   [pc |-> "store_user", cid |-> "c1", text |-> text,
                    response |-> IF IsBlank(r.response) THEN FallbackText
                                 ELSE r.response]]
          /\ UNCHANGED <<water_invoices, electricity_invoices, zones, now,
                         unreachable, conversations_store, agent, requests, turn,
                         pf>>

\* add_message_to_conversation(conversation_id, 'user', user_message)
ChatStoreUser ==
    \E t \in Threads :
      /\ inflight[t].pc = "store_user"
      /\ conversations_store' =
             add_message_to_conversation(conversations_store, inflight[t].cid,
                                         "user", inflight[t].text)
      /\ inflight' = [inflight EXCEPT ![t].pc = "store_assistant"]
      /\ UNCHANGED <<water_invoices, electricity_invoices, zones, now,
                     unreachable, agent, requests, turn, pf>>

\* add_message_to_conversation(conversation_id, 'assistant', response_text)
\* and the return of the payload
ChatStoreAssistant ==
    \E t \in Threads :
      /\ inflight[t].pc = "store_assistant"
      /\ conversations_store' =
             add_message_to_conversation(conversations_store, inflight[t].cid,
                                         "assistant", inflight[t].response)
      /\ inflight' = [inflight EXCEPT ![t].pc = "returned"]
      /\ requests' = requests + 1
      /\ UNCHANGED <<water_invoices, electricity_invoices, zones, now,
                     unreachable, agent, turn, pf>>

NextConc == ChatRun \/ ChatStoreUser \/ ChatStoreAssistant

SpecConc == InitConv /\ [][NextConc]_vars

\* a payment, the passing of time and one diagnosis
UnpaidRow ==
    [zone_id |-> 1, is_paid |-> FALSE, outstanding_balance |-> 450,
     cut_status |-> "CUT_OFF", last_payment_datetime |-> None]

PayZones ==
    {zr \in ZoneRows : /\ zr.outage_reason = None
                       /\ zr.estimated_restoration = None
                       /\ zr.affected_services \in {{}, {"AR_ma", "AR_kahraba"}}}

InitPay ==
    /\ water_invoices = (W1 :> UnpaidRow)
    /\ electricity_invoices = (E1 :> UnpaidRow)
    /\ zones \in {1 :> zr : zr \in PayZones}
    /\ now = 0
    /\ unreachable \in {{}, {"water_invoices", "electricity_invoices", "zones"}}
    /\ inflight = NoThreads
    /\ conversations_store = ("c1" :> <<>>)
    /\ agent = TRUE
    /\ requests = 0
    /\ turn = NoTurn
    /\ pf = NoCall

\* the clock of the database advances
Tick ==
    /\ now < MaxElapsed
    /\ now' = now + (WINDOW_SECONDS \div 4)
    /\ UNCHANGED <<water_invoices, electricity_invoices, zones, unreachable,
                   conversations_store, agent, requests, turn, pf, inflight>>

PayMessages == {<<"water", W1>>, <<"electricity", E1>>}

NextPay == pay_invoice \/ Tick \/ RunAgent(PayMessages)

SpecPay == InitPay /\ [][NextPay]_vars

\* the deterministic answer and the two tools of a service applied to the
\* same contract on the same store
CallWaterChecks ==
    \E lang \in {"ar", "fr", "en"}, user \in get_user_by_water_contract(W1) :
      /\ pf = NoCall
      /\ pf' = [fn |-> "water", done |-> TRUE, user |-> user,
                zone |-> ZoneOf(user),
                answer |-> _answer_water(user, ZoneOf(user), W1, lang),
                payment |-> _check_water_payment_impl(user, W1),
                maintenance |->
                    _check_water_maintenance_impl(user, ZoneOf(user), W1)]
      /\ UNCHANGED <<water_invoices, electricity_invoices, zones, now, unreachable, inflight,
                     conversations_store, agent, requests, turn>>

CallElectricityChecks ==
    \E lang \in {"ar", "fr", "en"}, user \in get_user_by_electricity_contract(E1) :
      /\ pf = NoCall
      /\ pf' = [fn |-> "electricity", done |-> TRUE, user |-> user,
                zone |-> ZoneOf(user),
                answer |-> _answer_elec(user, ZoneOf(user), E1, lang),
                payment |-> _check_electricity_payment_impl(user, E1),
                maintenance |->
                    _check_electricity_maintenance_impl(user, ZoneOf(user), E1)]
      /\ UNCHANGED <<water_invoices, electricity_invoices, zones, now, unreachable, inflight,
                     conversations_store, agent, requests, turn>>

NextChecks == CallWaterChecks \/ CallElectricityChecks

SpecChecks == InitDiag /\ [][NextChecks]_vars

\* ==================================================================== claims
\* the diagnosis a deterministic response states
Outcome(text) ==
    IF \E i \in 1..Len(text) : text[i].seg = "maintenance" THEN "MAINTENANCE"
    ELSE IF \E i \in 1..Len(text) : text[i].seg = "unpaid" THEN "UNPAID"
    ELSE IF \E i \in 1..Len(text) : text[i].seg = "paid_wait"
    THEN "REACTIVATION_PENDING"
    ELSE IF \E i \in 1..Len(text) : text[i].seg = "technical"
    THEN "TECHNICAL_UNKNOWN"
    ELSE IF \E i \in 1..Len(text) : text[i].seg = "not_found" THEN "NOT_FOUND"
    ELSE "NONE"

\* the word of affected_services for a service
ServiceWord(service) == IF service = "water" THEN "AR_ma" ELSE "AR_kahraba"

\* the turn ran a deterministic answer that found its account
FoundAccount == turn.ran /\ turn.path = "deterministic" /\ turn.user # None

\* the zone record of the found account reports maintenance for the service
MaintenanceForService ==
    /\ FoundAccount
    /\ turn.zone # None
    /\ turn.zone[1].maintenance_status = "IN_PROGRESS"
    /\ ServiceWord(turn.answered) \in turn.zone[1].affected_services

\* C1: whenever the deterministic path found the account and the zone record
\* of the account reports maintenance in progress affecting the requested
\* service, the diagnosis is MAINTENANCE, whatever is_paid and the outstanding
\* balance are; in particular never UNPAID.
C1_MaintenanceFirst ==
    MaintenanceForService => Outcome(turn.returned) = "MAINTENANCE"

\* C1 witness: an unpaid account with a balance, in a zone under
\* maintenance for its service, was diagnosed MAINTENANCE, for water and for
\* electricity alike.
C1_Witness ==
    /\ MaintenanceForService
    /\ ~turn.user[1].is_paid
    /\ turn.user[1].outstanding_balance > 0
    /\ Outcome(turn.returned) = "MAINTENANCE"
    /\ turn.answered = "electricity"

\* the text holds a contract of the other service than the requested one
WrongContract ==
    /\ turn.ran
    /\ \/ turn.service = "water" /\ turn.e # None
       \/ turn.service = "electricity" /\ turn.w # None

\* the response is the correction that names the requested service and no
\* lookup and no model call was made
CorrectionOnly ==
    /\ turn.path = "mismatch"
    /\ Len(turn.returned) = 1
    /\ turn.returned[1].seg = "mismatch"
    /\ turn.returned[1].service = turn.service
    /\ turn.lookups = <<>>
    /\ turn.model_calls = 0

\* C2 as stated: a text with a contract of the other service gets the
\* wrong-contract-type correction, without lookup or model call, even when
\* the text also holds a contract of the requested service.
C2_Original == WrongContract => CorrectionOnly

\* C2 amended: a text with a contract of the other service and no contract
\* of the requested service gets the wrong-contract-type correction naming
\* the requested service, and no lookup and no model call occurs.
C2_MismatchCorrection ==
    (/\ WrongContract
     /\ turn.service = "water" => turn.w = None
     /\ turn.service = "electricity" => turn.e = None) => CorrectionOnly

\* C2 witness: a water request carrying only an electricity contract was
\* answered with the correction.
C2_Witness ==
    /\ WrongContract
    /\ turn.service = "water"
    /\ turn.w = None
    /\ CorrectionOnly

\* the text holds a contract of the requested service
MatchingContract ==
    /\ turn.ran
    /\ \/ turn.service = "water" /\ turn.w # None
       \/ turn.service = "electricity" /\ turn.e # None

\* C3: a message with a contract whose prefix matches the effective service
\* gets the deterministic answer for that service (the diagnosis, or the
\* not-found notice) and the model is not invoked in that turn.
C3_DeterministicFirst ==
    MatchingContract =>
        /\ turn.path = "deterministic"
        /\ turn.answered = turn.service
        /\ turn.model_calls = 0
        /\ Outcome(turn.returned) # "NONE"
        /\ \A i \in 1..Len(turn.returned) :
               turn.returned[i].service = turn.service

\* C3 witness: a bare water contract, the service known from an earlier
\* user turn only, was diagnosed without a model call.
C3_Witness ==
    /\ MatchingContract
    /\ detect_service(turn.text) = "unknown"
    /\ turn.service = "water"
    /\ turn.path = "deterministic"
    /\ Outcome(turn.returned) = "MAINTENANCE"

\* C4 as stated: a message with a contract number and an unknown effective
\* service takes the deterministic path for the service of the contract's
\* prefix, without a model call.
C4_UnknownServiceDeterministic ==
    (turn.ran /\ turn.service = "unknown" /\ (turn.w # None \/ turn.e # None))
        => /\ turn.path = "deterministic"
           /\ turn.model_calls = 0
           /\ turn.answered = (IF turn.w # None THEN "water" ELSE "electricity")

\* the message names one service and holds no contract number
ServiceWithoutContract ==
    /\ turn.ran
    /\ detect_service(turn.text) \in {"water", "electricity"}
    /\ turn.w = None
    /\ turn.e = None

\* C5 as stated: a message that names one service and holds no contract is
\* handed to the model and no account or zone lookup is called in the turn.
C5_Original ==
    ServiceWithoutContract => turn.model_calls >= 1 /\ turn.lookups = <<>>

\* the lookups the tools of the requested calls make, at most
RECURSIVE RequestedLookups(_, _)
RequestedLookups(tool_calls, n) ==
    IF n = 0 THEN {}
    ELSE RequestedLookups(tool_calls, n - 1)
         \cup (IF tool_calls[n].name \in {"check_water_payment",
                                          "check_water_maintenance"}
               THEN {"get_user_by_water_contract"} ELSE {})
         \cup (IF tool_calls[n].name \in {"check_electricity_payment",
                                          "check_electricity_maintenance"}
               THEN {"get_user_by_electricity_contract"} ELSE {})
         \cup (IF tool_calls[n].name \in {"check_water_maintenance",
                                          "check_electricity_maintenance"}
               THEN {"get_zone_by_id"} ELSE {})

\* C5 amended: a message that names one service and holds no contract is
\* handed to the model; run_agent makes no lookup of its own: when the first
\* reply of the model requests no tool no lookup is called, and otherwise
\* only the lookups of the requested tools are.
C5_ModelDelegation ==
    ServiceWithoutContract =>
        /\ turn.path \in {"model", "model_tools", "error"}
        /\ turn.model_calls >= 1
        /\ turn.answered = ""
        /\ turn.agent.first.tool_calls = <<>> => turn.lookups = <<>>
        /\ \A i \in 1..Len(turn.lookups) :
               turn.lookups[i] \in
                   RequestedLookups(turn.agent.first.tool_calls,
                                    Len(turn.agent.first.tool_calls))

\* C5 witness: the Arabic electricity complaint without a contract was
\* answered by the model in one call, without a lookup.
C5_Witness ==
    /\ ServiceWithoutContract
    /\ turn.text = <<"AR_mochkil", "AR_alkahraba">>
    /\ turn.path = "model"
    /\ turn.model_calls = 1
    /\ turn.lookups = <<>>
    /\ turn.returned = ModelAr

\* C6: _build_reactivation_note returns no note when the elapsed seconds are
\* absent or, clamped at 0, reach the window; otherwise a note whose minutes
\* are max(1, ceil((window - max(elapsed, 0)) / 60)); with a window of 120:
\* 0 gives 2, 119 gives 1, 120 gives no note, -5 gives the note of 0.
C6_NoteMinutes ==
    (pf.fn = "_build_reactivation_note" /\ pf.done) =>
        LET e == pf.seconds_since_payment
            w == pf.window_seconds
        IN  IF e = None \/ Max(e[1], 0) >= w
            THEN pf.out = <<>>
            ELSE LET r == w - Max(e[1], 0)
                 IN  /\ Len(pf.out) = 1
                     /\ pf.out[1].seg = "note"
                     /\ pf.out[1].arg.minutes >= 1
                     /\ 60 * pf.out[1].arg.minutes >= r
                     /\ pf.out[1].arg.minutes > 1
                          => 60 * (pf.out[1].arg.minutes - 1) < r
                     /\ (w = 120 /\ e[1] = 0) => pf.out[1].arg.minutes = 2
                     /\ (w = 120 /\ e[1] = 119) => pf.out[1].arg.minutes = 1
                     /\ (w = 120 /\ e[1] = 0 - 5) => pf.out[1].arg.minutes = 2

\* C6 witness: an elapsed time of -5 seconds with a window of 120 gave the
\* note with 2 minutes.
C6_Witness ==
    /\ pf.fn = "_build_reactivation_note"
    /\ pf.done
    /\ pf.window_seconds = 120
    /\ pf.seconds_since_payment = Some(0 - 5)
    /\ Len(pf.out) = 1
    /\ pf.out[1].arg.minutes = 2

\* the invoice row of the account a deterministic answer found
FoundRow ==
    IF turn.answered = "water"
    THEN water_invoices[turn.user[1].water_contract_number]
    ELSE electricity_invoices[turn.user[1].electricity_contract_number]

\* the found account is paid and its last payment is inside the window
PaidInsideWindow ==
    /\ FoundAccount
    /\ FoundRow.is_paid
    /\ FoundRow.outstanding_balance = 0
    /\ FoundRow.last_payment_datetime # None
    /\ Max(now - FoundRow.last_payment_datetime[1], 0) < WINDOW_SECONDS

\* C7 as stated: the response for a paid account whose payment is inside the
\* window begins with the reactivation advisory, before the payments-current
\* diagnosis and before a MAINTENANCE diagnosis alike.
C7_AdvisoryPrepended ==
    PaidInsideWindow =>
        /\ Len(turn.returned) >= 2
        /\ turn.returned[1].seg = "note"

\* C8 as stated: every segment of a deterministic response (advisory,
\* diagnosis sentence, outage-reason and estimated-restoration labels) is in
\* the reply language of the turn.
C8_OneLanguage ==
    (FoundAccount /\ turn.lang \in {"ar", "fr", "en"}) =>
        \A i \in 1..Len(turn.returned) : turn.returned[i].lang = turn.lang

\* the index of the most recent assistant message of a history, 0 if none
LastAssistantIndex(h) ==
    LET A == {i \in 1..Len(h) : h[i].role = "assistant"}
    IN  IF A = {} THEN 0 ELSE CHOOSE i \in A : \A j \in A : j <= i

\* the text holds a Darija marker: a digit used as a consonant or a token
DarijaMarker(text) ==
    \E i \in 1..Len(text) :
        \/ text[i] \in DARIJA_TOKENS
        \/ Digits(text[i]) \cap ARABIZI_DIGITS # {}

\* C9: infer_language_from_thread returns one of ar, fr, en, by the fixed
\* priority: Arabic script in the most recent assistant turn gives ar
\* whatever the text; else Arabic script in the text gives ar; else a Darija
\* marker gives ar; else a French marker gives fr; else en.
C9_LanguagePriority ==
    (pf.fn = "infer_language_from_thread" /\ pf.done) =>
        LET h == pf.chat_history
            text == pf.user_input
            k == LastAssistantIndex(h)
        IN  /\ pf.out \in {"ar", "fr", "en"}
            /\ (k > 0 /\ AR_CHARS_reply(h[k].content)) => pf.out = "ar"
            /\ ~(k > 0 /\ AR_CHARS_reply(h[k].content)) =>
                 pf.out = (IF AR_CHARS_text(text) THEN "ar"
                           ELSE IF DarijaMarker(text) THEN "ar"
                           ELSE IF \E i \in 1..Len(text) : text[i] \in fr_markers
                           THEN "fr" ELSE "en")

\* C9 witness: after an Arabic assistant turn that followed a Latin one, a
\* Latin message without Darija or French marker was inferred as ar.
C9_Witness ==
    /\ pf.fn = "infer_language_from_thread"
    /\ pf.done
    /\ pf.user_input = <<"hello">>
    /\ Len(pf.chat_history) = 2
    /\ pf.chat_history[1] = Message("assistant", ModelEn)
    /\ pf.chat_history[2] = Message("assistant", ModelAr)
    /\ pf.out = "ar"

\* C10 as stated: the reply language run_agent uses in a turn of /chat,
\* /chat/audio or /speech-to-chat, for its templates and for the override of
\* the system prompt, is the value of infer_language_from_thread for the
\* text and history of the turn.
C10_ReplyLanguageInferred ==
    (turn.ran /\ turn.endpoint \in {"chat", "chat_with_audio", "speech_to_chat"})
        => /\ turn.lang = infer_language_from_thread(turn.text, turn.history)
           /\ turn.override # "" => turn.override = turn.lang

\* the user messages of a history that detect_service classifies
ClassifiedUserTurns(h) ==
    {i \in 1..Len(h) : /\ h[i].role = "user"
                       /\ detect_service(h[i].content) # "unknown"}

\* C11: when the current message does not classify, the effective service
\* is the classification of the most recent prior user turn that classifies,
\* and unknown only when no prior user turn classifies; when the current
\* message classifies, its classification is the effective service whatever
\* the history holds.
C11_ServiceFromHistory ==
    turn.ran =>
        LET h == turn.history
            U == ClassifiedUserTurns(h)
        IN  IF detect_service(turn.text) # "unknown"
            THEN turn.service = detect_service(turn.text)
            ELSE IF U = {} THEN turn.service = "unknown"
            ELSE turn.service =
                   detect_service(h[CHOOSE i \in U : \A j \in U : j <= i].content)

\* C11 witness: after a water turn and a later electricity turn, a bare
\* electricity contract was handled as an electricity request.
C11_Witness ==
    /\ turn.ran
    /\ turn.text = <<E1>>
    /\ Len(turn.history) = 4
    /\ detect_service(turn.history[1].content) = "water"
    /\ detect_service(turn.history[3].content) = "electricity"
    /\ turn.service = "electricity"
    /\ turn.answered = "electricity"

\* a rendered text is a diagnosis of the service
IsDiagnosis(text, service) ==
    \E k \in 1..Len(text) :
        /\ text[k].service = service
        /\ text[k].seg \in {"maintenance", "unpaid", "paid_wait", "technical"}

\* an assistant turn of the history delivered a diagnosis of the service
DiagnosedBefore(h, service) ==
    \E i \in 1..Len(h) :
        h[i].role = "assistant" /\ IsDiagnosis(h[i].content, service)

\* the user reported both services in the conversation up to this turn
ReportedBoth ==
    \/ detect_service(turn.text) = "both"
    \/ \E i \in 1..Len(turn.history) :
          /\ turn.history[i].role = "user"
          /\ detect_service(turn.history[i].content) = "both"

\* C12 as stated: in a conversation in which the user reported both
\* services, a turn delivers an electricity diagnosis only if an earlier turn
\* delivered a water diagnosis; and with effective service both and only an
\* electricity contract, the response asks for the water contract and makes
\* no electricity lookup.
C12_WaterBeforeElectricity ==
    turn.ran =>
        /\ (ReportedBoth /\ IsDiagnosis(turn.returned, "electricity"))
              => DiagnosedBefore(turn.history, "water")
        /\ (turn.service = "both" /\ turn.w = None /\ turn.e # None)
              => /\ turn.path = "mismatch"
                 /\ turn.returned[1].service = "water"
                 /\ turn.lookups = <<>>

\* C13 as stated: with effective service both and the water diagnosis
\* delivered in a prior turn, a turn that supplies only the electricity
\* contract receives the electricity diagnosis.
C13_ElectricityAfterWater ==
    (/\ turn.ran
     /\ turn.service = "both"
     /\ DiagnosedBefore(turn.history, "water")
     /\ turn.w = None
     /\ turn.e # None)
        => /\ turn.answered = "electricity"
           /\ IsDiagnosis(turn.returned, "electricity")

\* C14 as stated: the user turn and the assistant turn of an exchange are
\* appended together, so every stored conversation is a sequence of
\* (user, assistant) pairs and none ends in a user-only entry, also after a
\* turn that failed.
C14_NoDanglingUserTurn ==
    \A c \in DOMAIN conversations_store :
        LET h == conversations_store[c]
        IN  /\ Len(h) % 2 = 0
            /\ \A i \in 1..Len(h) :
                   h[i].role = (IF i % 2 = 1 THEN "user" ELSE "assistant")

\* C15 as stated: the chat response carries a PAY_INVOICE action only if the
\* user expressed an intent to pay, whatever the extraction model returns; a
\* message with a contract number and no payment intent has no action.
C15_PayOnlyOnIntent ==
    (turn.endpoint = "chat" /\ turn.action.type = "PAY_INVOICE")
        => _explicit_pay_intent(turn.text)

\* C16 as stated: the action of a chat response is absent, or NEED_CONTRACT
\* with a service or none, or PAY_INVOICE with a service in {water,
\* electricity} and a contract number; a PAY_INVOICE without contract number
\* is never emitted.
C16_ActionShape ==
    turn.endpoint = "chat" =>
        \/ turn.action = NoAction
        \/ /\ turn.action.type = "NEED_CONTRACT"
           /\ turn.action.invoice_type
                \in {None, Some("water"), Some("electricity")}
           /\ turn.action.contract_number = None
        \/ /\ turn.action.type = "PAY_INVOICE"
           /\ turn.action.invoice_type \in {Some("water"), Some("electricity")}
           /\ turn.action.contract_number # None

\* the turn ended on an error path of run_agent
ErrorPath ==
    /\ turn.ran
    /\ \/ turn.path \in {"error", "mismatch"}
       \/ Outcome(turn.returned) = "NOT_FOUND"

\* C17 as stated: every error-path response (not found, wrong contract type,
\* failure caught by run_agent) is one paragraph in the reply language of
\* the turn, for the reply languages fr and en too.
C17_ErrorsInReplyLanguage ==
    (ErrorPath /\ turn.lang \in {"fr", "en"}) =>
        \A i \in 1..Len(turn.returned) :
            turn.returned[i].seg # "ws" /\ turn.returned[i].lang = turn.lang

\* a query of the turn's deterministic answer failed
LookupFailed ==
    /\ turn.ran
    /\ turn.path = "deterministic"
    /\ \/ turn.answered = "water" /\ "water_invoices" \in unreachable
       \/ turn.answered = "electricity" /\ "electricity_invoices" \in unreachable
       \/ turn.user # None /\ "zones" \in unreachable

\* C18 as stated: when a query of a lookup fails, the turn returns the
\* generic apology of a collaborator failure, never 'contract not found' and
\* never a diagnosis that reports no maintenance.
C18_StoreFailureSurfaces ==
    LookupFailed => turn.returned = _one_line(ErrorText)

\* C19: every string run_agent returns, on every path, is one continuous
\* line: it holds no line break and no run of whitespace.
C19_SingleLine ==
    turn.ran => \A i \in 1..Len(turn.returned) : turn.returned[i].seg # "ws"

\* C19 witness: a reply of the model that spans several lines was returned
\* as one line.
C19_Witness ==
    /\ turn.ran
    /\ turn.path = "model"
    /\ turn.agent.first.content = ModelLines
    /\ Len(turn.returned) = 2
    /\ \A i \in 1..Len(turn.returned) : turn.returned[i].seg = "model"

\* C20 as stated: the deterministic path gives TECHNICAL_UNKNOWN only to an
\* account that is paid, has no matching maintenance and has cut_status OK;
\* an account with cut_status CUT_OFF never receives it.
C20_TechnicalOnlyWhenServiceOk ==
    (FoundAccount /\ Outcome(turn.returned) = "TECHNICAL_UNKNOWN") =>
        /\ turn.user[1].is_paid
        /\ turn.user[1].outstanding_balance = 0
        /\ ~MaintenanceForService
        /\ turn.user[1].cut_status = "OK"

\* the diagnosis sentences of a response
DiagnosisPieces(text) ==
    {i \in 1..Len(text) :
        text[i].seg \in {"maintenance", "unpaid", "paid_wait", "technical"}}

\* C21: when the deterministic path found the account and no maintenance
\* affects the requested service, the diagnosis is UNPAID exactly when the
\* account is not flagged paid or its outstanding balance is positive (a
\* flagged-paid account with a positive balance is UNPAID); otherwise it is one
\* of the paid outcomes; every combination gets exactly one diagnosis sentence.
C21_UnpaidSecond ==
    (FoundAccount /\ ~MaintenanceForService) =>
        /\ Outcome(turn.returned) = "UNPAID" <=>
              (~turn.user[1].is_paid \/ turn.user[1].outstanding_balance > 0)
        /\ Outcome(turn.returned) \in
              {"UNPAID", "REACTIVATION_PENDING", "TECHNICAL_UNKNOWN"}
        /\ Cardinality(DiagnosisPieces(turn.returned)) = 1

\* C21 witness: an electricity account flagged paid that still owes a balance,
\* outside any maintenance, was diagnosed UNPAID.
C21_Witness ==
    /\ FoundAccount
    /\ ~MaintenanceForService
    /\ turn.answered = "electricity"
    /\ turn.user[1].is_paid
    /\ turn.user[1].outstanding_balance > 0
    /\ Outcome(turn.returned) = "UNPAID"

\* a lookup of one of the two tables was made
LookedUp ==
    pf.fn \in {"get_user_by_water_contract", "get_user_by_electricity_contract"}

\* the contract numbers of the table the lookup reads
StoredContracts ==
    IF pf.fn = "get_user_by_water_contract" THEN DOMAIN water_invoices
    ELSE DOMAIN electricity_invoices

\* the contract number of a returned account, None of no account
ContractOf(user) ==
    IF user = None THEN None
    ELSE IF pf.fn = "get_user_by_water_contract"
    THEN Some(user[1].water_contract_number)
    ELSE Some(user[1].electricity_contract_number)

\* the supplied string holds the separator "/"
HasSeparator(arg) ==
    arg \in {W1, W2, W3, E1, E0, E3, "3701455886 /", "3701455887 /",
             "4801566997 /", "4801566998 /"}

\* the digits of a stored contract before its separator
LeadingSegment(stored) ==
    CASE stored = W1 -> "3701455886"
      [] stored = W3 -> "3701455887"
      [] stored = E1 -> "4801566997"
      [] stored = E3 -> "4801566998"
      [] OTHER -> ""

\* the contracts the stated matching policy allows a lookup to return
PolicyMatches(arg, stored) ==
    IF arg \in stored THEN {Some(arg)}
    ELSE IF ~HasSeparator(arg) /\ \E c \in stored : LeadingSegment(c) = arg
    THEN {Some(c) : c \in {d \in stored : LeadingSegment(d) = arg}}
    ELSE {None}

\* C22 as stated: a lookup returns the exact match when there is one; with
\* none, and only for a string without separator, the account whose leading
\* numeric segment equals the string; in every other case (a bare prefix such
\* as 3701, a string with a separator that is no exact match) nothing.
C22_MatchingPolicy ==
    LookedUp =>
        \A i \in 1..Len(pf.outs) :
            ContractOf(pf.outs[i]) \in PolicyMatches(pf.arg, StoredContracts)

\* C23 as stated: two lookups of the same contract on an unchanged store
\* return equal accounts, also when the string is a prefix of several stored
\* contracts.
C23_LookupIdempotent ==
    LookedUp => pf.outs[1] = pf.outs[2]

\* the whole token is a well-formed contract of the prefix:
\* ^(3701|4801)\d{6,}\s*/\s*\d{4,}$
WellFormed(tok, prefix) == ShapeMatches(tok, prefix)

\* C24 as stated: a contract is identified by the prefix of a well-formed
\* contract alone: what is reported as water contract is a well-formed token
\* that starts with 3701, what is reported as electricity contract one that
\* starts with 4801 (so a well-formed 4801 contract is never water, a string
\* that is not well-formed is neither), and no token is reported as both.
C24_ContractByPrefix ==
    turn.ran =>
        /\ turn.w # None =>
              \E i \in 1..Len(turn.text) :
                  turn.text[i] = turn.w[1] /\ WellFormed(turn.text[i], "3701")
        /\ turn.e # None =>
              \E i \in 1..Len(turn.text) :
                  turn.text[i] = turn.e[1] /\ WellFormed(turn.text[i], "4801")
        /\ \A i \in 1..Len(turn.text) :
              ~(WATER_RE_tok(turn.text[i]) /\ ELEC_RE_tok(turn.text[i]))

\* the messages of a conversation, none for an id that is not stored
StoredMessages(store, conversation_id) ==
    IF conversation_id \in DOMAIN store THEN store[conversation_id] ELSE <<>>

IsPrefix(a, b) == Len(a) <= Len(b) /\ SubSeq(b, 1, Len(a)) = a

\* the step handled a /chat request that succeeded
ChatSucceeded ==
    /\ requests' = requests + 1
    /\ turn'.endpoint = "chat"
    /\ turn'.status = 200

\* C25: each successful /chat request extends its conversation by exactly
\* its user message immediately followed by its response, after everything
\* the earlier requests stored, and no step removes or rewrites a stored
\* message.
C25_ExchangesInOrder ==
    [][/\ ChatSucceeded =>
            conversations_store'[turn'.cid] =
                StoredMessages(conversations_store, turn'.cid)
                \o <<Message("user", turn'.text),
                     Message("assistant", turn'.response)>>
       /\ \A c \in DOMAIN conversations_store :
            /\ c \in DOMAIN conversations_store'
            /\ IsPrefix(conversations_store[c], conversations_store'[c])]_vars

\* C25 witness: after two successful /chat requests the conversation holds
\* the two exchanges, the later one last.
C25_Witness ==
    /\ turn.endpoint = "chat"
    /\ turn.status = 200
    /\ requests = 2
    /\ turn.cid \in DOMAIN conversations_store
    /\ LET h == conversations_store[turn.cid]
       IN  /\ Len(h) = 4
           /\ h[1].role = "user" /\ h[2].role = "assistant"
           /\ h[3] = Message("user", turn.text)
           /\ h[4] = Message("assistant", turn.response)

\* C26 as stated: the history a request hands to run_agent is the conversation
\* as it was before the turn: the stored conversation after a successful
\* request is that history followed by the user message and the response of
\* the turn, so the history never holds the turn's own user message.
C26_HistoryBeforeTurn ==
    (turn.ran /\ turn.status = 200) =>
        conversations_store[turn.cid] =
            turn.history \o <<Message("user", turn.text),
                              Message("assistant", turn.response)>>

\* the appends a thread has made for its request
AppendsOf(t) ==
    CASE inflight[t].pc = "store_assistant" -> 1
      [] inflight[t].pc = "returned" -> 2
      [] OTHER -> 0

\* C27 as stated: with two /chat requests of one conversation in progress at
\* the same time, the user message of an exchange is directly followed by the
\* response of the same exchange (never user, user, assistant, assistant) and
\* the conversation holds every append that was made.
C27_ExchangeAtomic ==
    LET h == conversations_store["c1"]
    IN  /\ \A i \in 1..(Len(h) - 1) :
              h[i].role = "user" =>
                  \E t \in Threads :
                      /\ h[i] = Message("user", inflight[t].text)
                      /\ h[i + 1] = Message("assistant", inflight[t].response)
        /\ Len(h) = AppendsOf(1) + AppendsOf(2)

\* the invoice row a pay_invoice request names, None when there is none
NamedRow(call) ==
    IF call.invoice_type = "water" /\ call.contract_number \in DOMAIN water_invoices
    THEN Some(water_invoices[call.contract_number])
    ELSE IF call.invoice_type = "electricity"
            /\ call.contract_number \in DOMAIN electricity_invoices
    THEN Some(electricity_invoices[call.contract_number])
    ELSE None

\* the step is a pay_invoice request
Paying == requests' = requests + 1 /\ pf'.fn = "pay_invoice"

\* the step is a deterministic diagnosis of an account that was found
Diagnosing == ~turn.ran /\ turn'.ran /\ turn'.path = "deterministic" /\ turn'.user # None

\* the invoice of the diagnosed account records a payment inside the window
PaymentInsideWindow ==
    /\ FoundRow.last_payment_datetime # None
    /\ now - FoundRow.last_payment_datetime[1] < WINDOW_SECONDS

\* C28 as stated: a successful pay_invoice leaves the invoice paid, without
\* balance, with cut_status OK and the payment time of the request; a
\* pay_invoice that fails changes no invoice; every deterministic diagnosis of
\* the account made while the payment is inside the window begins with the
\* reactivation advisory, and one made after the window carries none.
C28_PaymentThenAdvisory ==
    [][/\ (Paying /\ pf'.status = 200) =>
            /\ NamedRow(pf)' # None
            /\ NamedRow(pf)'[1].is_paid
            /\ NamedRow(pf)'[1].outstanding_balance = 0
            /\ NamedRow(pf)'[1].cut_status = "OK"
            /\ NamedRow(pf)'[1].last_payment_datetime = Some(now)
       /\ (Paying /\ pf'.status # 200) =>
            UNCHANGED <<water_invoices, electricity_invoices>>
       /\ (Diagnosing /\ PaymentInsideWindow') =>
            turn'.returned[1].seg = "note"
       /\ (Diagnosing /\ ~PaymentInsideWindow') =>
            \A i \in 1..Len(turn'.returned) : turn'.returned[i].seg # "note"]_vars

\* a tool result holds a segment of one of the names
Reports(text, segs) == \E i \in 1..Len(text) : text[i].seg \in segs

HasNote(text) == Reports(text, {"note"})

\* C29 as stated: on the same account the tools and the deterministic path
\* agree: the payment tool reports UNPAID exactly when the deterministic path
\* decides UNPAID (also for an account flagged paid with a positive balance),
\* the maintenance tool reports maintenance exactly when the deterministic
\* path decides MAINTENANCE, and the payment tool carries the advisory exactly
\* when the deterministic answer does.
C29_ToolsAgree ==
    (pf.fn \in {"water", "electricity"} /\ pf.user # None) =>
        /\ Reports(pf.maintenance, {"WATER_MAINTENANCE_IN_PROGRESS",
                                    "ELECTRICITY_MAINTENANCE_IN_PROGRESS"})
              <=> Outcome(pf.answer) = "MAINTENANCE"
        /\ Outcome(pf.answer) # "MAINTENANCE" =>
              (Reports(pf.payment, {"WATER_PAYMENT_STATUS_UNPAID",
                                    "ELECTRICITY_PAYMENT_STATUS_UNPAID"})
                  <=> Outcome(pf.answer) = "UNPAID")
        /\ Outcome(pf.answer) # "UNPAID" =>
              (HasNote(pf.payment) <=> HasNote(pf.answer))

\* the names of the first n requested tool calls, in order
RECURSIVE RequestedNames(_, _)
RequestedNames(tool_calls, n) ==
    IF n = 0 THEN <<>>
    ELSE Append(RequestedNames(tool_calls, n - 1), tool_calls[n].name)

IsTool(name) == \E i \in 1..Len(tools) : tools[i] = name

\* what C30 states apart from the feeding of the tool results: a turn answered
\* without the model calls it 0 times, any turn at most twice; the lookups
\* made are those of the tools the first reply requested, so a tool call of
\* the second reply is not executed; a raising collaborator yields the
\* apology as the returned string.
BoundedAgent ==
    /\ turn.path \in {"deterministic", "mismatch"} => turn.model_calls = 0
    /\ turn.model_calls <= 2
    /\ turn.path \in {"model", "model_tools", "error"} =>
          /\ turn.model_calls >= 1
          /\ \A i \in 1..Len(turn.lookups) :
                turn.lookups[i] \in
                    RequestedLookups(turn.agent.first.tool_calls,
                                     Len(turn.agent.first.tool_calls))
    /\ turn.path = "error" <=> turn.returned = _one_line(ErrorText)
    /\ (turn.model_calls >= 1 /\ turn.agent.first.raises) => turn.path = "error"
    /\ (turn.model_calls = 2 /\ turn.agent.second.raises) => turn.path = "error"

\* C30 as stated: run_agent returns a string with at most two calls of the
\* model, none on a deterministic turn, executes no tool call of the second
\* reply, converts every exception into a returned message, and every tool
\* call of the first reply names one of the four tools and has its result fed
\* back before the second call.
C30_AgentLoop ==
    turn.ran =>
        /\ BoundedAgent
        /\ turn.path = "model_tools" =>
              /\ \A i \in 1..Len(turn.agent.first.tool_calls) :
                    IsTool(turn.agent.first.tool_calls[i].name)
              /\ turn.fed = RequestedNames(turn.agent.first.tool_calls,
                                           Len(turn.agent.first.tool_calls))

====
